---- MODULE Spec2Model ----
(***************************************************************************)
(* Model of the go-featuregate resolution engine: resolver.Gate            *)
(* (resolve / Set / Unset), the default resolve strategy, the scope chain  *)
(* builder and store.MemoryStore.                                          *)
(*                                                                         *)
(* Go strings are modelled as sequences of one-character strings, so that  *)
(* strings.TrimSpace, strings.ToLower, strings.Join and sort.Strings are   *)
(* computed, not assumed.                                                  *)
(***************************************************************************)
EXTENDS Integers, Sequences, FiniteSets, TLC

(***************************************************************************)
(* Strings                                                                 *)
(***************************************************************************)

\* Characters in byte order (sort.Strings compares bytes).
Alphabet == <<" ", "A", "B", "a", "b", "j", "k", "o", "p", "t", "u", "|">>

CharRank(c) == CHOOSE i \in 1..Len(Alphabet) : Alphabet[i] = c

EmptyStr == <<>>

IsSpace(c) == c = " "

RECURSIVE TrimLeft(_)
TrimLeft(s) ==
    IF s = <<>> THEN s
    ELSE IF IsSpace(Head(s)) THEN TrimLeft(Tail(s)) ELSE s

RECURSIVE TrimRight(_)
TrimRight(s) ==
    IF s = <<>> THEN s
    ELSE IF IsSpace(s[Len(s)]) THEN TrimRight(SubSeq(s, 1, Len(s) - 1)) ELSE s

\* strings.TrimSpace
TrimSpace(s) == TrimRight(TrimLeft(s))

LowerChar(c) == IF c = "A" THEN "a" ELSE IF c = "B" THEN "b" ELSE c

RECURSIVE ToLower(_)
\* strings.ToLower
ToLower(s) == IF s = <<>> THEN <<>> ELSE <<LowerChar(Head(s))>> \o ToLower(Tail(s))

RECURSIVE StrLess(_, _)
\* Go's string "<": bytewise lexicographic order.
StrLess(a, b) ==
    IF b = <<>> THEN FALSE
    ELSE IF a = <<>> THEN TRUE
    ELSE IF Head(a) = Head(b) THEN StrLess(Tail(a), Tail(b))
    ELSE CharRank(Head(a)) < CharRank(Head(b))

RECURSIVE SortStrings(_)
\* sort.Strings applied to a collection of distinct strings.
SortStrings(S) ==
    IF S = {} THEN <<>>
    ELSE LET m == CHOOSE x \in S : \A y \in S \ {x} : StrLess(x, y)
         IN  <<m>> \o SortStrings(S \ {m})

RECURSIVE JoinStrings(_, _)
\* strings.Join(parts, sep)
JoinStrings(parts, sep) ==
    IF parts = <<>> THEN <<>>
    ELSE IF Len(parts) = 1 THEN parts[1]
    ELSE parts[1] \o sep \o JoinStrings(Tail(parts), sep)

SeqRange(s) == {s[i] : i \in 1..Len(s)}

(***************************************************************************)
(* gate: keys, scope kinds, scope refs, override states                    *)
(***************************************************************************)

ScopeSystem == "system"
ScopeTenant == "tenant"
ScopeOrg    == "org"
ScopeUser   == "user"
ScopeRole   == "role"
ScopePerm   == "perm"

OverrideStateMissing  == "missing"
OverrideStateEnabled  == "enabled"
OverrideStateDisabled == "disabled"
OverrideStateUnset    == "unset"

ResolveSourceOverride == "override"
ResolveSourceDefault  == "default"
ResolveSourceFallback == "fallback"

\* The universe a behaviour is drawn from: the build of package gate (its
\* alias table), the gates that may be constructed and the arguments and
\* collaborator outcomes of the calls. Fixed from the initial state on.
VARIABLE uni

\* The alias table: a set of <<alias, canonical>> pairs. Shipped empty.
keyAliases == uni.aliases

\* Variant of NormalizeKey: the key is trimmed and legacy names are kept.
NormalizeKeyTrimOnly(key) == TrimSpace(key)

\* gate.NormalizeKey
NormalizeKey(key) ==
    LET t == TrimSpace(key)
    IN  IF t = EmptyStr THEN EmptyStr
        ELSE IF \E p \in keyAliases : p[1] = t
             THEN (CHOOSE p \in keyAliases : p[1] = t)[2]
             ELSE t

\* Variant of AliasesFor: the key "k" still has the legacy alias "j".
AliasesForLegacy(key) ==
    IF NormalizeKey(key) = <<"k">> THEN << <<"j">> >> ELSE <<>>

RECURSIVE Reverse(_)
Reverse(s) == IF s = <<>> THEN <<>> ELSE Append(Reverse(Tail(s)), Head(s))

\* Variant of AliasesFor: the aliases come in another order than sorted, as
\* the iteration over the alias map may yield them.
AliasesForUnsorted(key) ==
    IF NormalizeKey(key) = EmptyStr THEN <<>>
    ELSE Reverse(SortStrings({p[1] : p \in {q \in keyAliases : q[2] = NormalizeKey(key)}}))

\* gate.AliasesFor
AliasesFor(key) ==
    LET normalized == NormalizeKey(key)
    IN  IF normalized = EmptyStr THEN <<>>
        ELSE SortStrings({p[1] : p \in {q \in keyAliases : q[2] = normalized}})

ScopeRef(kind, id, tenantId, orgId) ==
    [Kind |-> kind, ID |-> id, TenantID |-> tenantId, OrgID |-> orgId]

SystemRef == ScopeRef(ScopeSystem, EmptyStr, EmptyStr, EmptyStr)

ActorClaims(subject, tenant, org, roles, perms) ==
    [SubjectID |-> subject, TenantID |-> tenant, OrgID |-> org,
     Roles |-> roles, Perms |-> perms]

(***************************************************************************)
(* store: Override values and MemoryStore                                  *)
(***************************************************************************)

MissingOverride  == [State |-> OverrideStateMissing,  Value |-> FALSE]
UnsetOverride    == [State |-> OverrideStateUnset,    Value |-> FALSE]
EnabledOverride  == [State |-> OverrideStateEnabled,  Value |-> TRUE]
DisabledOverride == [State |-> OverrideStateDisabled, Value |-> FALSE]

\* store.scopeKeyFromRef: the map key of a ScopeRef in the memory store.
scopeKeyFromRef(ref) ==
    LET id == IF ref.ID = EmptyStr
              THEN IF ref.Kind = ScopeTenant THEN ref.TenantID
                   ELSE IF ref.Kind = ScopeOrg THEN ref.OrgID
                   ELSE ref.ID
              ELSE ref.ID
    IN  [kind |-> ref.Kind, id |-> id, tenantID |-> ref.TenantID, orgID |-> ref.OrgID]

\* The empty nested map of NewMemoryStore.
NewMemoryStore == <<>>

EntriesFor(entries, key) ==
    IF key \in DOMAIN entries THEN entries[key] ELSE <<>>

\* Variant of PutEntry: the inner map of the key is replaced by one that
\* holds the written record alone.
PutEntryFreshInner(entries, key, sk, override) ==
    [k \in DOMAIN entries \cup {key} |->
        IF k = key THEN [s \in {sk} |-> override] ELSE entries[k]]

\* m.entries[normalized][scope] = override, creating the inner map if needed.
PutEntry(entries, key, sk, override) ==
    LET inner == EntriesFor(entries, key)
        newInner == [s \in DOMAIN inner \cup {sk} |->
                        IF s = sk THEN override ELSE inner[s]]
    IN  [k \in DOMAIN entries \cup {key} |->
            IF k = key THEN newInner ELSE entries[k]]

RECURSIVE GetAllFromSkipsUnset(_, _)
\* Variant of GetAllFrom: records in state unset are passed over.
GetAllFromSkipsUnset(inner, chain) ==
    IF chain = <<>> THEN <<>>
    ELSE LET ref == Head(chain)
             sk  == scopeKeyFromRef(ref)
         IN  (IF sk \in DOMAIN inner /\ inner[sk].State # OverrideStateUnset
              THEN <<[Scope |-> ref, Override |-> inner[sk]]>>
              ELSE <<>>) \o GetAllFromSkipsUnset(inner, Tail(chain))

RECURSIVE GetAllFrom(_, _)
GetAllFrom(inner, chain) ==
    IF chain = <<>> THEN <<>>
    ELSE LET ref == Head(chain)
             sk  == scopeKeyFromRef(ref)
         IN  (IF sk \in DOMAIN inner
              THEN <<[Scope |-> ref, Override |-> inner[sk]]>>
              ELSE <<>>) \o GetAllFrom(inner, Tail(chain))

\* MemoryStore.GetAll (the key reaching it is already normalized and non-empty).
MemoryGetAll(entries, key, chain) ==
    LET normalized == NormalizeKey(TrimSpace(key))
        inner == EntriesFor(entries, normalized)
    IN  IF DOMAIN inner = {} THEN <<>> ELSE GetAllFrom(inner, chain)

\* Variant of MemorySet: the record is filed under the scope's kind and id
\* alone.
MemorySetByIdOnly(entries, key, scopeRef, enabled) ==
    PutEntry(entries, NormalizeKey(TrimSpace(key)),
             [scopeKeyFromRef(scopeRef) EXCEPT !.tenantID = EmptyStr, !.orgID = EmptyStr],
             IF enabled THEN EnabledOverride ELSE DisabledOverride)

\* MemoryStore.Set
MemorySet(entries, key, scopeRef, enabled) ==
    PutEntry(entries, NormalizeKey(TrimSpace(key)), scopeKeyFromRef(scopeRef),
             IF enabled THEN EnabledOverride ELSE DisabledOverride)

\* Variant of MemoryUnset: the record is left as it is.
MemoryUnsetKeeps(entries, key, scopeRef) == entries

\* MemoryStore.Delete: the record is removed, and the inner map of the key
\* with its last record; deleted tells whether there was a record.
MemoryDelete(entries, key, scopeRef) ==
    LET normalized == NormalizeKey(TrimSpace(key))
        inner == EntriesFor(entries, normalized)
        sk == scopeKeyFromRef(scopeRef)
        rest == [s \in DOMAIN inner \ {sk} |-> inner[s]]
    IN  IF normalized = EmptyStr \/ sk \notin DOMAIN inner
        THEN [entries |-> entries, deleted |-> FALSE]
        ELSE [entries |-> IF DOMAIN rest = {}
                          THEN [k \in DOMAIN entries \ {normalized} |-> entries[k]]
                          ELSE [entries EXCEPT ![normalized] = rest],
              deleted |-> TRUE]

\* MemoryStore.Clear
MemoryClear(entries) == <<>>

\* Variant of MemoryUnset: the record is removed, as Delete removes it.
MemoryUnsetDeletes(entries, key, scopeRef) ==
    MemoryDelete(entries, key, scopeRef).entries

\* MemoryStore.Unset
MemoryUnset(entries, key, scopeRef) ==
    PutEntry(entries, NormalizeKey(TrimSpace(key)), scopeKeyFromRef(scopeRef),
             UnsetOverride)

\* stubStore.GetAll of the resolver tests: a store that files its records
\* under the exact key it is given and reports the record of a key at the
\* first scope of the chain.
StubGetAll(overrides, key, chain) ==
    IF key \in DOMAIN overrides
    THEN <<[Scope |-> IF chain # <<>> THEN chain[1]
                      ELSE ScopeRef(ScopeSystem, EmptyStr, EmptyStr, EmptyStr),
            Override |-> overrides[key]]>>
    ELSE <<>>

StoreMemory == "memory"
StoreStub   == "stub"

\* store.Reader.GetAll of the store the gate was given.
StoreGetAll(kind, entries, key, chain) ==
    IF kind = StoreStub THEN StubGetAll(entries, key, chain)
    ELSE MemoryGetAll(entries, key, chain)

\* store.Writer.Set of the store the gate was given; stubStore.Set records
\* the call and stores nothing.
StoreSet(kind, entries, key, scopeRef, enabled) ==
    IF kind = StoreStub THEN entries
    ELSE MemorySet(entries, key, scopeRef, enabled)

\* store.Writer.Unset of the store the gate was given.
StoreUnset(kind, entries, key, scopeRef) ==
    IF kind = StoreStub THEN entries
    ELSE MemoryUnset(entries, key, scopeRef)

(***************************************************************************)
(* resolver: scope chain builder                                           *)
(***************************************************************************)

defaultScopeOrder ==
    <<ScopeUser, ScopeRole, ScopePerm, ScopeOrg, ScopeTenant, ScopeSystem>>

\* resolver.defaultRolePermNormalizer
defaultRolePermNormalizer(value) == ToLower(TrimSpace(value))

\* The IdentifierNormalizer of a gate: the default one, or one given with
\* WithRolePermNormalizer that returns the identifier as it is.
NormalizerDefault  == "default"
NormalizerIdentity == "identity"

\* g.rolePermNormalizer(value)
rolePermNormalizer(normalizer, value) ==
    IF normalizer = NormalizerIdentity THEN value
    ELSE defaultRolePermNormalizer(value)

\* Variant of normalizeScopeRef: the identifiers are trimmed and the role or
\* permission is left in the case it came in.
normalizeScopeRefTrimOnly(normalizer, ref) ==
    [Kind |-> ref.Kind, ID |-> TrimSpace(ref.ID),
     TenantID |-> TrimSpace(ref.TenantID), OrgID |-> TrimSpace(ref.OrgID)]

\* Gate.normalizeScopeRef
normalizeScopeRef(normalizer, ref) ==
    LET id == TrimSpace(ref.ID)
    IN  [Kind |-> ref.Kind,
         ID |-> IF ref.Kind = ScopeRole \/ ref.Kind = ScopePerm
                THEN rolePermNormalizer(normalizer, id) ELSE id,
         TenantID |-> TrimSpace(ref.TenantID),
         OrgID |-> TrimSpace(ref.OrgID)]

RECURSIVE normalizeList(_, _)
\* resolver.normalizeList
normalizeList(values, normalizer) ==
    IF values = <<>> THEN <<>>
    ELSE LET trimmed == TrimSpace(Head(values))
             norm == IF trimmed = EmptyStr THEN EmptyStr
                     ELSE rolePermNormalizer(normalizer, trimmed)
         IN  (IF norm = EmptyStr THEN <<>> ELSE <<norm>>)
             \o normalizeList(Tail(values), normalizer)

RECURSIVE dedupeStableFrom(_, _)
dedupeStableFrom(values, seen) ==
    IF values = <<>> THEN <<>>
    ELSE IF Head(values) \in seen THEN dedupeStableFrom(Tail(values), seen)
    ELSE <<Head(values)>> \o dedupeStableFrom(Tail(values), seen \cup {Head(values)})

\* Variant of dedupeStable: every value is kept.
dedupeStableKeepsAll(values) == values

\* resolver.dedupeStable
dedupeStable(values) == dedupeStableFrom(values, {})

\* Variant of sortAndDedupe: the distinct values are returned in the order
\* they were first seen.
sortAndDedupeUnsorted(values) == dedupeStableFrom(values, {})

\* resolver.sortAndDedupe
sortAndDedupe(values) == SortStrings(SeqRange(values))

\* Variant of buildRolePermRefs: the global refs alone.
buildRolePermRefsGlobalOnly(kind, items, claims) ==
    [i \in 1..Len(items) |-> ScopeRef(kind, items[i], EmptyStr, EmptyStr)]

RECURSIVE buildRolePermRefs(_, _, _)
\* resolver.buildRolePermRefs
buildRolePermRefs(kind, items, claims) ==
    IF items = <<>> THEN <<>>
    ELSE LET id == Head(items)
             global == <<ScopeRef(kind, id, EmptyStr, EmptyStr)>>
             qualified == IF claims.TenantID # EmptyStr \/ claims.OrgID # EmptyStr
                          THEN <<ScopeRef(kind, id, claims.TenantID, claims.OrgID)>>
                          ELSE <<>>
         IN  (IF id = EmptyStr THEN <<>> ELSE global \o qualified)
             \o buildRolePermRefs(kind, Tail(items), claims)

\* The refs one scopeOrder entry contributes in Gate.buildChain.
chainRefsFor(kind, claims, roles, perms) ==
    CASE kind = ScopeUser ->
            IF claims.SubjectID # EmptyStr
            THEN <<ScopeRef(ScopeUser, claims.SubjectID, claims.TenantID, claims.OrgID)>>
            ELSE <<>>
      [] kind = ScopeRole -> buildRolePermRefs(ScopeRole, roles, claims)
      [] kind = ScopePerm -> buildRolePermRefs(ScopePerm, perms, claims)
      [] kind = ScopeOrg ->
            IF claims.OrgID # EmptyStr
            THEN <<ScopeRef(ScopeOrg, claims.OrgID, claims.TenantID, claims.OrgID)>>
            ELSE <<>>
      [] kind = ScopeTenant ->
            IF claims.TenantID # EmptyStr
            THEN <<ScopeRef(ScopeTenant, claims.TenantID, claims.TenantID, EmptyStr)>>
            ELSE <<>>
      [] kind = ScopeSystem -> <<SystemRef>>
      [] OTHER -> <<>>

RECURSIVE buildChainOver(_, _, _, _)
buildChainOver(order, claims, roles, perms) ==
    IF order = <<>> THEN <<>>
    ELSE chainRefsFor(Head(order), claims, roles, perms)
         \o buildChainOver(Tail(order), claims, roles, perms)

\* Gate.buildChain
buildChain(scopeOrder, preserveRolePermOrder, normalizer, claims) ==
    LET nroles == normalizeList(claims.Roles, normalizer)
        nperms == normalizeList(claims.Perms, normalizer)
        roles == IF preserveRolePermOrder THEN dedupeStable(nroles) ELSE sortAndDedupe(nroles)
        perms == IF preserveRolePermOrder THEN dedupeStable(nperms) ELSE sortAndDedupe(nperms)
    IN  buildChainOver(scopeOrder, claims, roles, perms)

\* Variant of appendSystemIfMissing: the chain is returned as it is.
appendSystemNever(chain) == chain

\* resolver.appendSystemIfMissing
appendSystemIfMissing(chain) ==
    IF \E i \in 1..Len(chain) : chain[i].Kind = ScopeSystem
    THEN chain
    ELSE Append(chain, SystemRef)

\* resolver.mergePerms
mergePerms(existing, extra) == IF extra = <<>> THEN existing ELSE existing \o extra

(***************************************************************************)
(* resolver: default resolve strategy                                      *)
(***************************************************************************)

\* The zero value of gate.ScopeRef (ScopeKind's zero value is ScopeSystem).
ZeroScopeRef == ScopeRef(ScopeSystem, EmptyStr, EmptyStr, EmptyStr)

groupUser     == "user"
groupRolePerm == "role_perm"
groupOrg      == "org"
groupTenant   == "tenant"
groupSystem   == "system"

\* resolver.scopeKindString (the kind name is kept as one token of the joined key)
scopeKindString(kind) ==
    IF kind \in {ScopeSystem, ScopeTenant, ScopeOrg, ScopeUser, ScopeRole, ScopePerm}
    THEN <<kind>> ELSE <<"unknown">>

\* resolver.scopeKey: strings.Join({kind, tenant, org, id}, "|")
scopeKey(ref) ==
    JoinStrings(<<scopeKindString(ref.Kind), ref.TenantID, ref.OrgID, ref.ID>>, <<"|">>)

\* resolver.containsGroup
containsGroup(groups, target) == \E i \in 1..Len(groups) : groups[i] = target

RECURSIVE groupOrderFromAtRole(_, _)
\* Variant of groupOrderFrom: the role/permission group is placed where role
\* is named.
groupOrderFromAtRole(scopeOrder, order) ==
    IF scopeOrder = <<>> THEN order
    ELSE LET kind == Head(scopeOrder)
             next ==
                CASE kind = ScopeUser -> Append(order, groupUser)
                  [] kind = ScopeRole -> Append(order, groupRolePerm)
                  [] kind = ScopeOrg -> Append(order, groupOrg)
                  [] kind = ScopeTenant -> Append(order, groupTenant)
                  [] kind = ScopeSystem -> Append(order, groupSystem)
                  [] OTHER -> order
         IN  groupOrderFromAtRole(Tail(scopeOrder), next)

RECURSIVE groupOrderFrom(_, _)
\* The loop of groupOrderFor over the configured order.
groupOrderFrom(scopeOrder, order) ==
    IF scopeOrder = <<>> THEN order
    ELSE LET kind == Head(scopeOrder)
             next ==
                CASE kind = ScopeUser -> Append(order, groupUser)
                  [] kind \in {ScopeRole, ScopePerm} ->
                        IF containsGroup(order, groupRolePerm) THEN order
                        ELSE Append(order, groupRolePerm)
                  [] kind = ScopeOrg -> Append(order, groupOrg)
                  [] kind = ScopeTenant -> Append(order, groupTenant)
                  [] kind = ScopeSystem -> Append(order, groupSystem)
                  [] OTHER -> order
         IN  groupOrderFrom(Tail(scopeOrder), next)

\* Variant of groupOrderFor: the configured order is ignored.
groupOrderForDefault(scopeOrder) ==
    <<groupUser, groupRolePerm, groupOrg, groupTenant, groupSystem>>

\* resolver.groupOrderFor
groupOrderFor(scopeOrder) ==
    LET order == groupOrderFrom(scopeOrder, <<>>)
    IN  IF order = <<>>
        THEN <<groupUser, groupRolePerm, groupOrg, groupTenant, groupSystem>>
        ELSE order

\* resolver.scopeKindInGroup
scopeKindInGroup(kind, group) ==
    CASE group = groupUser     -> kind = ScopeUser
      [] group = groupRolePerm -> kind = ScopeRole \/ kind = ScopePerm
      [] group = groupOrg      -> kind = ScopeOrg
      [] group = groupTenant   -> kind = ScopeTenant
      [] group = groupSystem   -> kind = ScopeSystem
      [] OTHER -> FALSE

RECURSIVE buildMatchMap(_, _)
\* The matchMap of defaultResolveStrategy: a later match replaces an earlier
\* one with the same scopeKey.
buildMatchMap(matches, acc) ==
    IF matches = <<>> THEN acc
    ELSE LET m == Head(matches)
             k == scopeKey(m.Scope)
         IN  buildMatchMap(Tail(matches),
                 [x \in DOMAIN acc \cup {k} |-> IF x = k THEN m ELSE acc[x]])

RECURSIVE collectGroupMatchesReversed(_, _, _)
\* Variant of collectGroupMatches: the matches of a group come in reverse
\* chain order.
collectGroupMatchesReversed(group, chain, matchMap) ==
    IF chain = <<>> THEN <<>>
    ELSE LET ref == Head(chain)
         IN  collectGroupMatchesReversed(group, Tail(chain), matchMap)
             \o (IF scopeKindInGroup(ref.Kind, group) /\ scopeKey(ref) \in DOMAIN matchMap
                 THEN <<matchMap[scopeKey(ref)]>> ELSE <<>>)

RECURSIVE collectGroupMatchesAnyScope(_, _, _)
\* Variant of collectGroupMatches: the matches of the kind of the group are
\* taken as the store returned them, without a look at the chain.
collectGroupMatchesAnyScope(group, chain, matchMap) ==
    LET keys == {k \in DOMAIN matchMap : scopeKindInGroup(matchMap[k].Scope.Kind, group)}
    IN  IF keys = {} THEN <<>>
        ELSE LET k == CHOOSE x \in keys : TRUE
             IN  <<matchMap[k]>>
                 \o collectGroupMatchesAnyScope(group, chain,
                        [x \in DOMAIN matchMap \ {k} |-> matchMap[x]])

RECURSIVE collectGroupMatches(_, _, _)
\* resolver.collectGroupMatches
collectGroupMatches(group, chain, matchMap) ==
    IF chain = <<>> THEN <<>>
    ELSE LET ref == Head(chain)
         IN  (IF scopeKindInGroup(ref.Kind, group) /\ scopeKey(ref) \in DOMAIN matchMap
              THEN <<matchMap[scopeKey(ref)]>> ELSE <<>>)
             \o collectGroupMatches(group, Tail(chain), matchMap)

\* resolver.valueFromOverride (a *bool: "true", "false" or "nil")
valueFromOverride(override) ==
    IF override.State = OverrideStateEnabled THEN "true"
    ELSE IF override.State = OverrideStateDisabled THEN "false"
    ELSE "nil"

\* resolver.toMatchTraces
toMatchTraces(matches) ==
    [i \in 1..Len(matches) |->
        [Scope |-> matches[i].Scope,
         State |-> matches[i].Override.State,
         Value |-> valueFromOverride(matches[i].Override)]]

\* resolver.normalizeMatches
normalizeMatches(matches) ==
    [i \in 1..Len(matches) |->
        IF matches[i].Override.State = ""
        THEN [matches[i] EXCEPT !.Override.State = OverrideStateMissing]
        ELSE matches[i]]

NoDecision ==
    [Matched |-> FALSE, Value |-> FALSE, Match |-> ZeroScopeRef,
     Matches |-> <<>>, Strategy |-> "default"]

\* The zero value of gate.OverrideTrace.
ZeroOverrideTrace ==
    [State |-> "", Value |-> "nil", Match |-> ZeroScopeRef, Matches |-> <<>>,
     Error |-> "nil"]

\* Variant of decide: the decision carries the negated value.
decideNegated(m, matches, state) ==
    [decision |-> [Matched |-> TRUE, Value |-> (state # OverrideStateEnabled),
                   Match |-> m.Scope, Matches |-> matches, Strategy |-> "default"],
     trace |-> [State |-> state,
                Value |-> IF state = OverrideStateEnabled THEN "true" ELSE "false",
                Match |-> m.Scope, Matches |-> toMatchTraces(matches),
                Error |-> "nil"]]

\* Variant of decide: the scope reported as matched has the kind of the
\* deciding match and no identifier.
decideAtKind(m, matches, state) ==
    [decision |-> [Matched |-> TRUE, Value |-> (state = OverrideStateEnabled),
                   Match |-> ScopeRef(m.Scope.Kind, EmptyStr, EmptyStr, EmptyStr),
                   Matches |-> matches, Strategy |-> "default"],
     trace |-> [State |-> state,
                Value |-> IF state = OverrideStateEnabled THEN "true" ELSE "false",
                Match |-> ScopeRef(m.Scope.Kind, EmptyStr, EmptyStr, EmptyStr),
                Matches |-> toMatchTraces(matches),
                Error |-> "nil"]]

\* The decision and trace evaluateGroup returns when it settles on match m.
decide(m, matches, state) ==
    [decision |-> [Matched |-> TRUE, Value |-> (state = OverrideStateEnabled),
                   Match |-> m.Scope, Matches |-> matches, Strategy |-> "default"],
     trace |-> [State |-> state,
                Value |-> IF state = OverrideStateEnabled THEN "true" ELSE "false",
                Match |-> m.Scope, Matches |-> toMatchTraces(matches),
                Error |-> "nil"]]

\* Variant of firstWithState: an unset record counts as a record of interest.
firstWithStateOrUnset(matches, states) ==
    LET wanted == states \cup {OverrideStateUnset}
    IN  IF \E i \in 1..Len(matches) : matches[i].Override.State \in wanted
        THEN CHOOSE i \in 1..Len(matches) :
                /\ matches[i].Override.State \in wanted
                /\ \A j \in 1..(i - 1) : matches[j].Override.State \notin wanted
        ELSE 0

\* First index of matches whose state is in states, 0 when there is none.
firstWithState(matches, states) ==
    IF \E i \in 1..Len(matches) : matches[i].Override.State \in states
    THEN CHOOSE i \in 1..Len(matches) :
            /\ matches[i].Override.State \in states
            /\ \A j \in 1..(i - 1) : matches[j].Override.State \notin states
    ELSE 0

\* Variant of evaluateGroup: the role/permission group is evaluated like the
\* other groups, the first enabled or disabled match deciding.
evaluateGroupFirstWins(group, matches) ==
    LET undecided ==
            [decision |-> NoDecision,
             trace |-> [ZeroOverrideTrace EXCEPT !.State = OverrideStateMissing,
                                                 !.Matches = toMatchTraces(matches)]]
        first(any) ==
            IF any # 0 THEN decide(matches[any], matches, matches[any].Override.State)
            ELSE undecided
    IN  first(firstWithState(matches, {OverrideStateEnabled, OverrideStateDisabled}))

\* resolver.evaluateGroup
evaluateGroup(group, matches) ==
    LET undecided ==
            [decision |-> NoDecision,
             trace |-> [ZeroOverrideTrace EXCEPT !.State = OverrideStateMissing,
                                                 !.Matches = toMatchTraces(matches)]]
        rolePerm(dis, en) ==
            IF dis # 0 THEN decide(matches[dis], matches, OverrideStateDisabled)
            ELSE IF en # 0 THEN decide(matches[en], matches, OverrideStateEnabled)
            ELSE undecided
        first(any) ==
            IF any # 0 THEN decide(matches[any], matches, matches[any].Override.State)
            ELSE undecided
    IN  IF group = groupRolePerm
        THEN rolePerm(firstWithState(matches, {OverrideStateDisabled}),
                      firstWithState(matches, {OverrideStateEnabled}))
        ELSE first(firstWithState(matches, {OverrideStateEnabled, OverrideStateDisabled}))

RECURSIVE strategyOver(_, _, _)
\* The loop over groupOrder in defaultResolveStrategy.
strategyOver(groupOrder, chain, matchMap) ==
    LET settle(groupMatches, r) ==
            IF groupMatches = <<>> \/ ~r.decision.Matched
            THEN strategyOver(Tail(groupOrder), chain, matchMap)
            ELSE r
        evaluate(groupMatches) ==
            settle(groupMatches, evaluateGroup(Head(groupOrder), groupMatches))
    IN  IF groupOrder = <<>>
        THEN [decision |-> NoDecision,
              trace |-> [ZeroOverrideTrace EXCEPT !.State = OverrideStateMissing]]
        ELSE evaluate(collectGroupMatches(Head(groupOrder), chain, matchMap))

\* resolver.defaultResolveStrategy: returns the decision and the override
\* sub-trace (the strategy name of the trace is always "default").
defaultResolveStrategy(chain, matches, scopeOrder) ==
    IF matches = <<>>
    THEN [decision |-> NoDecision,
          trace |-> [ZeroOverrideTrace EXCEPT !.State = OverrideStateMissing]]
    ELSE strategyOver(groupOrderFor(scopeOrder), chain, buildMatchMap(matches, <<>>))

(***************************************************************************)
(* resolver.Gate: configuration, traces, collaborators                     *)
(***************************************************************************)

FailOpen   == "fail_open"
FailClosed == "fail_closed"

NoError             == "nil"
ErrInvalidKey       == "invalid_key"          \* BadInput
ErrStoreUnavailable == "store_unavailable"    \* Operation
ErrScopeResolve     == "scope_resolve_failed" \* External, claims or permissions
ErrStoreRead        == "store_read_failed"    \* External
ErrStoreWrite       == "store_write_failed"   \* External
ErrDefaultLookup    == "default_lookup_failed"

\* resolver.New: the Gate a call to New() with no options builds, with a
\* defaults collaborator and an in-memory store and cache attached.
NewGate(defaults) ==
    [defaults |-> defaults,
     hasReader |-> TRUE,
     hasWriter |-> TRUE,
     store |-> StoreMemory,
     cacheKind |-> "map",
     hasPermissionProvider |-> FALSE,
     hooks |-> 1,
     updateHooks |-> 1,
     strictStore |-> FALSE,
     scopeOrder |-> defaultScopeOrder,
     rolePermNormalizer |-> NormalizerDefault,
     strategy |-> "default",
     failureMode |-> FailOpen,
     failureFallbackChain |-> <<>>,
     appendSystemOnFailure |-> TRUE,
     appendSystemOnProvidedChain |-> FALSE,
     preserveRolePermOrder |-> FALSE]

\* The zero value of gate.ResolveTrace.
ZeroTrace ==
    [Key |-> EmptyStr, NormalizedKey |-> EmptyStr, Chain |-> <<>>,
     Value |-> FALSE, Source |-> "",
     Override |-> ZeroOverrideTrace,
     Default |-> [Set |-> FALSE, Value |-> FALSE, Error |-> NoError],
     CacheHit |-> FALSE, Strategy |-> "", ClaimsFailureMode |-> ""]

\* staticDefaults.Default / NoopDefaults.Default: the configured default of a
\* key, or the zero DefaultResult.
DefaultOf(defaults, key) ==
    IF key \in DOMAIN defaults THEN defaults[key] ELSE [Set |-> FALSE, Value |-> FALSE]

\* Cache.Get of a map cache; NoopCache.Get always misses.
CacheGet(cacheKind, c, key, chain) ==
    IF cacheKind = "map" /\ <<key, chain>> \in DOMAIN c
    THEN [found |-> TRUE, entry |-> c[<<key, chain>>]]
    ELSE [found |-> FALSE, entry |-> [Value |-> FALSE, Trace |-> ZeroTrace]]

\* Cache.Set of a map cache; NoopCache.Set does nothing.
CacheSet(cacheKind, c, key, chain, entry) ==
    IF cacheKind = "map"
    THEN [p \in DOMAIN c \cup {<<key, chain>>} |->
            IF p = <<key, chain>> THEN entry ELSE c[p]]
    ELSE c

\* Cache.Clear
CacheClear(cacheKind, c) == <<>>

\* Variant of resolveChain: a provider failure always yields the fallback
\* chain, whatever the failure mode.
resolveChainAlwaysOpen(g, req, claimsOut, permOut) ==
    LET fallback == IF g.appendSystemOnFailure
                    THEN appendSystemIfMissing(g.failureFallbackChain)
                    ELSE g.failureFallbackChain
        onFailure(nc, np) ==
            [chain |-> fallback, err |-> NoError, nClaims |-> nc, nPerms |-> np]
    IN  IF req.given
        THEN [chain |-> IF g.appendSystemOnProvidedChain
                        THEN appendSystemIfMissing(req.chain) ELSE req.chain,
              err |-> NoError, nClaims |-> 0, nPerms |-> 0]
        ELSE IF claimsOut.err THEN onFailure(1, 0)
        ELSE IF g.hasPermissionProvider /\ permOut.err THEN onFailure(1, 1)
        ELSE [chain |-> appendSystemIfMissing(
                            buildChain(g.scopeOrder, g.preserveRolePermOrder,
                                       g.rolePermNormalizer, claimsOut.claims)),
              err |-> NoError, nClaims |-> 1,
              nPerms |-> IF g.hasPermissionProvider THEN 1 ELSE 0]

\* Gate.resolveChain asking the providers before it looks at the request.
resolveChainProvidersFirst(g, req, claimsOut, permOut) ==
    LET fallback == IF g.appendSystemOnFailure
                    THEN appendSystemIfMissing(g.failureFallbackChain)
                    ELSE g.failureFallbackChain
        onFailure(nc, np) ==
            IF g.failureMode = FailClosed
            THEN [chain |-> <<>>, err |-> ErrScopeResolve, nClaims |-> nc, nPerms |-> np]
            ELSE [chain |-> fallback, err |-> NoError, nClaims |-> nc, nPerms |-> np]
    IN  IF claimsOut.err THEN onFailure(1, 0)
        ELSE IF g.hasPermissionProvider /\ permOut.err THEN onFailure(1, 1)
        ELSE IF req.given
        THEN [chain |-> IF g.appendSystemOnProvidedChain
                        THEN appendSystemIfMissing(req.chain) ELSE req.chain,
              err |-> NoError, nClaims |-> 1,
              nPerms |-> IF g.hasPermissionProvider THEN 1 ELSE 0]
        ELSE [chain |-> appendSystemIfMissing(
                            buildChain(g.scopeOrder, g.preserveRolePermOrder,
                                       g.rolePermNormalizer, claimsOut.claims)),
              err |-> NoError, nClaims |-> 1,
              nPerms |-> IF g.hasPermissionProvider THEN 1 ELSE 0]

\* Gate.resolveChain
resolveChain(g, req, claimsOut, permOut) ==
    LET fallback == IF g.appendSystemOnFailure
                    THEN appendSystemIfMissing(g.failureFallbackChain)
                    ELSE g.failureFallbackChain
        onFailure(nc, np) ==
            IF g.failureMode = FailClosed
            THEN [chain |-> <<>>, err |-> ErrScopeResolve, nClaims |-> nc, nPerms |-> np]
            ELSE [chain |-> fallback, err |-> NoError, nClaims |-> nc, nPerms |-> np]
    IN  IF req.given
        THEN [chain |-> IF g.appendSystemOnProvidedChain
                        THEN appendSystemIfMissing(req.chain) ELSE req.chain,
              err |-> NoError, nClaims |-> 0, nPerms |-> 0]
        ELSE IF claimsOut.err THEN onFailure(1, 0)
        ELSE IF g.hasPermissionProvider /\ permOut.err THEN onFailure(1, 1)
        ELSE LET claims == IF g.hasPermissionProvider
                           THEN [claimsOut.claims EXCEPT
                                    !.Perms = mergePerms(@, permOut.perms)]
                           ELSE claimsOut.claims
             IN  [chain |-> appendSystemIfMissing(
                                buildChain(g.scopeOrder, g.preserveRolePermOrder,
                                           g.rolePermNormalizer, claims)),
                  err |-> NoError, nClaims |-> 1,
                  nPerms |-> IF g.hasPermissionProvider THEN 1 ELSE 0]

\* A ResolveStrategy given with WithResolveStrategy that returns an error.
failingStrategy(chain, matches, scopeOrder) ==
    [decision |-> NoDecision, trace |-> ZeroOverrideTrace, err |-> TRUE]

\* Gate.applyStrategy: the gate's strategy, the default one never failing.
applyStrategy(g, key, chain, matches) ==
    LET applied(r) == [decision |-> r.decision, trace |-> r.trace, err |-> FALSE]
    IN  IF g.strategy = "failing"
        THEN failingStrategy(chain, matches, g.scopeOrder)
        ELSE applied(defaultResolveStrategy(chain, matches, g.scopeOrder))

RECURSIVE resolveAliases(_, _, _, _, _, _)
\* The alias loop of Gate.resolveOverrides; calls holds the keys of the GetAll
\* calls made so far. When no alias decides, the outer trace variable is
\* returned, whose override sub-trace is still the zero value.
resolveAliases(g, entries, aliases, chain, getErrAt, calls) ==
    LET settle(r, made) ==
            IF r.err
            THEN [decision |-> NoDecision, trace |-> r.trace, err |-> TRUE,
                  reads |-> Len(made), calls |-> made]
            ELSE IF r.decision.Matched
            THEN [decision |-> r.decision, trace |-> r.trace, err |-> FALSE,
                  reads |-> Len(made), calls |-> made]
            ELSE resolveAliases(g, entries, Tail(aliases), chain, getErrAt, made)
    IN  IF aliases = <<>>
        THEN [decision |-> NoDecision, trace |-> ZeroOverrideTrace, err |-> FALSE,
              reads |-> Len(calls), calls |-> calls]
        ELSE IF getErrAt = Len(calls) + 1
        THEN [decision |-> NoDecision, trace |-> ZeroOverrideTrace, err |-> TRUE,
              reads |-> Len(calls) + 1, calls |-> Append(calls, Head(aliases))]
        ELSE settle(applyStrategy(g, Head(aliases), chain,
                        normalizeMatches(
                            StoreGetAll(g.store, entries, Head(aliases), chain))),
                    Append(calls, Head(aliases)))

\* Gate.resolveOverrides: getErrAt is the number of the GetAll call the store
\* fails (0 for none); an error of the strategy is returned like one of the
\* store. The trace returned is the override sub-trace; the
\* strategy's own trace is scoped to the if statement that applies it, so an
\* undecided result carries the zero override sub-trace.
resolveOverrides(g, entries, key, chain, getErrAt) ==
    LET settle(r) ==
            IF r.err
            THEN [decision |-> NoDecision, trace |-> r.trace, err |-> TRUE,
                  reads |-> 1, calls |-> <<key>>]
            ELSE IF r.decision.Matched
            THEN [decision |-> r.decision, trace |-> r.trace, err |-> FALSE,
                  reads |-> 1, calls |-> <<key>>]
            ELSE resolveAliases(g, entries, AliasesFor(key), chain, getErrAt, <<key>>)
    IN  IF getErrAt = 1
        THEN [decision |-> NoDecision, trace |-> ZeroOverrideTrace, err |-> TRUE,
              reads |-> 1, calls |-> <<key>>]
        ELSE settle(applyStrategy(g, key, chain,
                        normalizeMatches(StoreGetAll(g.store, entries, key, chain))))

\* Variant of writeCache: the result is cached whatever the store read did.
writeCacheAlways(g, c, key, chain, trace, storeErr) ==
    CacheSet(g.cacheKind, c, key, chain, [Value |-> trace.Value, Trace |-> trace])

\* Gate.writeCache
writeCache(g, c, key, chain, trace, storeErr) ==
    IF storeErr # NoError THEN c
    ELSE CacheSet(g.cacheKind, c, key, chain, [Value |-> trace.Value, Trace |-> trace])

\* Variant of invalidateCache: only the entries of the written key are dropped.
invalidateCacheOfKey(g, c, key, scopeRef) ==
    [p \in {q \in DOMAIN c : q[1] # key} |-> c[p]]

\* Gate.invalidateCache: every branch clears the whole cache.
invalidateCache(g, c, key, scopeRef) == CacheClear(g.cacheKind, c)

\* Variant of emitResolve: the hooks are told of successful resolutions only.
emitResolveOnSuccess(g, trace, err) ==
    IF err # NoError THEN <<>>
    ELSE [i \in 1..g.hooks |->
            [hook |-> i, Key |-> trace.Key, NormalizedKey |-> trace.NormalizedKey,
             Chain |-> trace.Chain, Value |-> trace.Value, Source |-> trace.Source,
             Error |-> err, CacheHit |-> trace.CacheHit]]

\* Gate.emitResolve: one event per registered hook, in registration order.
emitResolve(g, trace, err) ==
    [i \in 1..g.hooks |->
        [hook |-> i, Key |-> trace.Key, NormalizedKey |-> trace.NormalizedKey,
         Chain |-> trace.Chain, Value |-> trace.Value, Source |-> trace.Source,
         Error |-> err, CacheHit |-> trace.CacheHit]]

\* emitUpdate stopping after the first registered hook.
emitUpdateFirstHookOnly(g, event) ==
    [i \in 1..(IF g.updateHooks > 0 THEN 1 ELSE 0) |-> [hook |-> i, event |-> event]]

\* Gate.emitUpdate: one event per registered activity hook.
emitUpdate(g, event) == [i \in 1..g.updateHooks |-> [hook |-> i, event |-> event]]

(***************************************************************************)
(* A call in progress: its arguments, the outcomes its collaborators will  *)
(* give it, its position (pc) and its locals.                              *)
(***************************************************************************)

NoChainGiven == [given |-> FALSE, chain |-> <<>>]
WithScopeChain(chain) == [given |-> TRUE, chain |-> chain]

NoClaims == ActorClaims(EmptyStr, EmptyStr, EmptyStr, <<>>, <<>>)

IdleFrame ==
    [op |-> "none", pc |-> "done",
     key |-> EmptyStr, req |-> NoChainGiven,
     claimsOut |-> [err |-> FALSE, claims |-> NoClaims],
     permOut |-> [err |-> FALSE, perms |-> <<>>],
     getErrAt |-> 0, defErr |-> FALSE, afterOutage |-> FALSE,
     ref |-> ZeroScopeRef, enabled |-> FALSE, actor |-> "", writeErrAt |-> 0,
     nkey |-> EmptyStr, chain |-> <<>>, scopeRef |-> ZeroScopeRef,
     trace |-> ZeroTrace, value |-> FALSE, err |-> NoError, storeErr |-> NoError,
     prev |-> OverrideStateMissing,
     nClaims |-> 0, nPerms |-> 0, nCacheGet |-> 0, nCacheSet |-> 0,
     nStoreGet |-> 0, nDefaults |-> 0, nStoreWrite |-> 0, nCacheClear |-> 0,
     getCalls |-> <<>>, writeCalls |-> <<>>,
     events |-> <<>>, updates |-> <<>>,
     guard |-> [fgNil |-> FALSE, key |-> EmptyStr, overrides |-> <<>>, errAt |-> 0,
                errorMapper |-> "none", disabledErr |-> FALSE,
                calls |-> <<>>,
                result |-> [kind |-> "nil", err |-> NoError, key |-> EmptyStr]]]

\* A call of Enabled / ResolveWithTrace.
ResolveCall(key, req, claimsOut, permOut, getErrAt, defErr) ==
    [IdleFrame EXCEPT !.op = "resolve", !.pc = "start", !.key = key, !.req = req,
                      !.claimsOut = claimsOut, !.permOut = permOut,
                      !.getErrAt = getErrAt, !.defErr = defErr]

\* A call of Set.
SetCall(key, ref, enabled, actor, writeErrAt) ==
    [IdleFrame EXCEPT !.op = "set", !.pc = "write", !.key = key, !.ref = ref,
                      !.enabled = enabled, !.actor = actor,
                      !.writeErrAt = writeErrAt]

\* A call of Unset.
UnsetCall(key, ref, actor, writeErrAt) ==
    [IdleFrame EXCEPT !.op = "unset", !.pc = "write", !.key = key, !.ref = ref,
                      !.actor = actor, !.writeErrAt = writeErrAt]

\* return value, trace, err after emitResolve(trace, err)
finishResolve(g, f, value, trace, err) ==
    [f EXCEPT !.pc = "done", !.value = value, !.trace = trace, !.err = err,
              !.events = emitResolve(g, trace, err)]

\* Variant of resolveStart: the chain is resolved first and the key validated
\* after it.
resolveStartChainFirst(g, f) ==
    LET begin(trimmed, normalized, rc) ==
            LET trace == [ZeroTrace EXCEPT !.Key = trimmed, !.NormalizedKey = normalized,
                                           !.Chain = rc.chain,
                                           !.ClaimsFailureMode = g.failureMode]
                f2 == [f EXCEPT !.nkey = normalized, !.nClaims = rc.nClaims,
                                !.nPerms = rc.nPerms, !.chain = rc.chain]
            IN  IF rc.err # NoError
                THEN finishResolve(g, f2, FALSE,
                         [trace EXCEPT !.Source = ResolveSourceFallback], rc.err)
                ELSE IF normalized = EmptyStr
                THEN finishResolve(g, f2, FALSE,
                         [trace EXCEPT !.Source = ResolveSourceFallback], ErrInvalidKey)
                ELSE [f2 EXCEPT !.pc = "cacheGet", !.trace = trace]
    IN  begin(TrimSpace(f.key), NormalizeKey(TrimSpace(f.key)),
              resolveChain(g, f.req, f.claimsOut, f.permOut))

\* Gate.resolve, up to the cache lookup: key validation and resolveChain.
resolveStart(g, f) ==
    LET begin(trimmed, normalized, rc) ==
            LET trace == [ZeroTrace EXCEPT !.Key = trimmed, !.NormalizedKey = normalized,
                                           !.Chain = rc.chain,
                                           !.ClaimsFailureMode = g.failureMode]
                f2 == [f EXCEPT !.nkey = normalized, !.nClaims = rc.nClaims,
                                !.nPerms = rc.nPerms, !.chain = rc.chain]
            IN  IF normalized = EmptyStr
                THEN finishResolve(g, [f EXCEPT !.nkey = normalized], FALSE,
                         [ZeroTrace EXCEPT !.Key = trimmed, !.NormalizedKey = normalized,
                                           !.Source = ResolveSourceFallback],
                         ErrInvalidKey)
                ELSE IF rc.err # NoError
                THEN finishResolve(g, f2, FALSE,
                         [trace EXCEPT !.Source = ResolveSourceFallback], rc.err)
                ELSE [f2 EXCEPT !.pc = "cacheGet", !.trace = trace]
    IN  begin(TrimSpace(f.key), NormalizeKey(TrimSpace(f.key)),
              resolveChain(g, f.req, f.claimsOut, f.permOut))

\* Variant of resolveCacheGet: a hit is marked in the trace but the resolution
\* goes on to the override store.
resolveCacheGetThenStore(g, f, c) ==
    [f EXCEPT !.nCacheGet = @ + 1, !.pc = "store",
              !.trace.CacheHit = CacheGet(g.cacheKind, c, f.nkey, f.chain).found]

\* Gate.resolve: the cache lookup.
resolveCacheGet(g, f, c) ==
    LET lookedUp(hit) ==
            IF hit.found
            THEN finishResolve(g, [f EXCEPT !.nCacheGet = @ + 1], hit.entry.Value,
                     [hit.entry.Trace EXCEPT
                         !.Key = IF @ = EmptyStr THEN f.trace.Key ELSE @,
                         !.NormalizedKey = IF @ = EmptyStr THEN f.nkey ELSE @,
                         !.Chain = f.chain,
                         !.Value = hit.entry.Value,
                         !.CacheHit = TRUE],
                     NoError)
            ELSE [f EXCEPT !.nCacheGet = @ + 1, !.pc = "store"]
    IN  lookedUp(CacheGet(g.cacheKind, c, f.nkey, f.chain))

\* Variant of resolveStore: a store failure never aborts, strict or not.
resolveStoreNeverStrict(g, f, entries) ==
    LET read(ro) ==
            IF ro.err
            THEN [f EXCEPT !.nStoreGet = ro.reads, !.getCalls = ro.calls, !.pc = "defaults",
                           !.storeErr = ErrStoreRead,
                           !.trace.Override.Error = ErrStoreRead]
            ELSE IF ro.decision.Matched
            THEN [f EXCEPT !.nStoreGet = ro.reads, !.getCalls = ro.calls, !.pc = "cacheSet",
                           !.trace = [f.trace EXCEPT !.Override = ro.trace,
                                                     !.Strategy = "default",
                                                     !.Value = ro.decision.Value,
                                                     !.Source = ResolveSourceOverride]]
            ELSE [f EXCEPT !.nStoreGet = ro.reads, !.getCalls = ro.calls, !.pc = "defaults",
                           !.trace = [f.trace EXCEPT !.Override = ro.trace,
                                                     !.Strategy = "default"]]
    IN  read(resolveOverrides(g, entries, f.nkey, f.chain, f.getErrAt))

\* Variant of resolveStore: a strict gate returns the store error together
\* with the configured default of the key.
resolveStoreStrictDefault(g, f, entries) ==
    LET read(ro) ==
            IF ro.err
            THEN IF g.strictStore
                 THEN finishResolve(g,
                          [f EXCEPT !.nStoreGet = ro.reads, !.getCalls = ro.calls,
                                    !.storeErr = ErrStoreRead],
                          DefaultOf(g.defaults, f.nkey).Set
                              /\ DefaultOf(g.defaults, f.nkey).Value,
                          [f.trace EXCEPT !.Override.Error = ErrStoreRead,
                                          !.Override.State = OverrideStateMissing,
                                          !.Source = ResolveSourceFallback],
                          ErrStoreRead)
                 ELSE [f EXCEPT !.nStoreGet = ro.reads, !.getCalls = ro.calls, !.pc = "defaults",
                                !.storeErr = ErrStoreRead,
                                !.trace.Override.Error = ErrStoreRead]
            ELSE IF ro.decision.Matched
            THEN [f EXCEPT !.nStoreGet = ro.reads, !.getCalls = ro.calls, !.pc = "cacheSet",
                           !.trace = [f.trace EXCEPT !.Override = ro.trace,
                                                     !.Strategy = "default",
                                                     !.Value = ro.decision.Value,
                                                     !.Source = ResolveSourceOverride]]
            ELSE [f EXCEPT !.nStoreGet = ro.reads, !.getCalls = ro.calls, !.pc = "defaults",
                           !.trace = [f.trace EXCEPT !.Override = ro.trace,
                                                     !.Strategy = "default"]]
    IN  IF ~g.hasReader
        THEN [f EXCEPT !.pc = "defaults",
                       !.trace.Override.State = OverrideStateMissing]
        ELSE read(resolveOverrides(g, entries, f.nkey, f.chain, f.getErrAt))

\* Gate.resolve: the override store read and the strategy.
resolveStore(g, f, entries) ==
    LET read(ro) ==
            IF ro.err
            THEN IF g.strictStore
                 THEN finishResolve(g,
                          [f EXCEPT !.nStoreGet = ro.reads, !.getCalls = ro.calls,
                                    !.storeErr = ErrStoreRead],
                          FALSE,
                          [f.trace EXCEPT !.Override.Error = ErrStoreRead,
                                          !.Override.State = OverrideStateMissing,
                                          !.Source = ResolveSourceFallback],
                          ErrStoreRead)
                 ELSE [f EXCEPT !.nStoreGet = ro.reads, !.getCalls = ro.calls, !.pc = "defaults",
                                !.storeErr = ErrStoreRead,
                                !.trace.Override.Error = ErrStoreRead]
            ELSE IF ro.decision.Matched
            THEN [f EXCEPT !.nStoreGet = ro.reads, !.getCalls = ro.calls, !.pc = "cacheSet",
                           !.trace = [f.trace EXCEPT !.Override = ro.trace,
                                                     !.Strategy = "default",
                                                     !.Value = ro.decision.Value,
                                                     !.Source = ResolveSourceOverride]]
            ELSE [f EXCEPT !.nStoreGet = ro.reads, !.getCalls = ro.calls, !.pc = "defaults",
                           !.trace = [f.trace EXCEPT !.Override = ro.trace,
                                                     !.Strategy = "default"]]
    IN  IF ~g.hasReader
        THEN [f EXCEPT !.pc = "defaults",
                       !.trace.Override.State = OverrideStateMissing]
        ELSE read(resolveOverrides(g, entries, f.nkey, f.chain, f.getErrAt))

\* Variant of resolveDefaults: a failed lookup is recorded in the trace and
\* taken for a key without a default.
resolveDefaultsIgnoresError(g, f) ==
    [f EXCEPT !.nDefaults = @ + 1,
              !.pc = "cacheSet",
              !.trace = [f.trace EXCEPT
                  !.Default.Error = IF f.defErr THEN ErrDefaultLookup ELSE NoError,
                  !.Default.Set = ~f.defErr /\ DefaultOf(g.defaults, f.nkey).Set,
                  !.Default.Value = ~f.defErr /\ DefaultOf(g.defaults, f.nkey).Value,
                  !.Value = ~f.defErr /\ DefaultOf(g.defaults, f.nkey).Set
                            /\ DefaultOf(g.defaults, f.nkey).Value,
                  !.Source = IF ~f.defErr /\ DefaultOf(g.defaults, f.nkey).Set
                             THEN ResolveSourceDefault ELSE ResolveSourceFallback]]

\* Gate.resolve: the defaults lookup.
resolveDefaults(g, f) ==
    LET lookedUp(def) ==
            IF f.defErr
            THEN finishResolve(g, [f EXCEPT !.nDefaults = @ + 1], FALSE,
                     [f.trace EXCEPT !.Default.Error = ErrDefaultLookup,
                                     !.Source = ResolveSourceFallback],
                     ErrDefaultLookup)
            ELSE [f EXCEPT !.nDefaults = @ + 1,
                           !.pc = "cacheSet",
                           !.trace = [f.trace EXCEPT
                               !.Default.Set = def.Set,
                               !.Default.Value = def.Value,
                               !.Value = IF def.Set THEN def.Value ELSE FALSE,
                               !.Source = IF def.Set THEN ResolveSourceDefault
                                          ELSE ResolveSourceFallback]]
    IN  lookedUp(DefaultOf(g.defaults, f.nkey))

\* Gate.resolve: writeCache, emitResolve and return.
resolveCacheSet(g, f, c) ==
    [f |-> finishResolve(g,
               [f EXCEPT !.nCacheSet = IF f.storeErr = NoError THEN @ + 1 ELSE @],
               f.trace.Value, f.trace, NoError),
     cache |-> writeCache(g, c, f.nkey, f.chain, f.trace, f.storeErr)]

\* State of the record the memory store holds for (key, scopeRef).
RecordState(entries, key, scopeRef) ==
    LET inner == EntriesFor(entries, key)
        sk == scopeKeyFromRef(scopeRef)
    IN  IF sk \in DOMAIN inner THEN inner[sk].State ELSE OverrideStateMissing

\* Variant of unsetAliases: no alias is written.
unsetAliasesSkips(g, entries, aliases, scopeRef, writeErrAt, calls) ==
    [entries |-> entries, err |-> NoError, writes |-> Len(calls), calls |-> calls]

RECURSIVE unsetAliases(_, _, _, _, _, _)
\* Gate.unsetAliases: calls holds the keys of the store writes made so far in
\* the call.
unsetAliases(g, entries, aliases, scopeRef, writeErrAt, calls) ==
    IF aliases = <<>>
    THEN [entries |-> entries, err |-> NoError, writes |-> Len(calls), calls |-> calls]
    ELSE IF writeErrAt = Len(calls) + 1
    THEN [entries |-> entries, err |-> ErrStoreWrite, writes |-> Len(calls) + 1,
          calls |-> Append(calls, Head(aliases))]
    ELSE unsetAliases(g, StoreUnset(g.store, entries, Head(aliases), scopeRef),
                      Tail(aliases), scopeRef, writeErrAt,
                      Append(calls, Head(aliases)))

\* Variant of mutateWrite: a failed write of the primary key is kept for the
\* return, as the error of an alias write is, and the call goes on to the
\* cache invalidation and the activity event.
mutateWriteKeepsGoing(g, f, entries) ==
    LET written(normalized, scopeRef) ==
            IF f.op = "set"
            THEN [entries |-> StoreSet(g.store, entries, normalized, scopeRef, f.enabled),
                  err |-> NoError, writes |-> 1, calls |-> <<normalized>>]
            ELSE unsetAliases(g, StoreUnset(g.store, entries, normalized, scopeRef),
                              AliasesFor(normalized), scopeRef, f.writeErrAt,
                              <<normalized>>)
        stored(f1, al) ==
            [f |-> [f1 EXCEPT !.pc = "clear", !.nStoreWrite = al.writes, !.err = al.err,
                              !.writeCalls = al.calls,
                              !.prev = IF g.store = StoreStub
                                       THEN OverrideStateMissing
                                       ELSE RecordState(entries, f1.nkey, f1.scopeRef)],
             entries |-> al.entries]
        write(f1) ==
            IF ~g.hasWriter
            THEN [f |-> [f1 EXCEPT !.pc = "done", !.err = ErrStoreUnavailable],
                  entries |-> entries]
            ELSE IF f1.nkey = EmptyStr
            THEN [f |-> [f1 EXCEPT !.pc = "done", !.err = ErrInvalidKey],
                  entries |-> entries]
            ELSE IF f.writeErrAt = 1
            THEN [f |-> [f1 EXCEPT !.pc = "clear", !.err = ErrStoreWrite,
                                   !.nStoreWrite = 1, !.writeCalls = <<f1.nkey>>],
                  entries |-> entries]
            ELSE stored(f1, written(f1.nkey, f1.scopeRef))
    IN  write([f EXCEPT !.nkey = NormalizeKey(TrimSpace(f.key)),
                        !.scopeRef = normalizeScopeRef(g.rolePermNormalizer, f.ref),
                        !.trace.Key = TrimSpace(f.key)])

\* Variant of mutateWrite: the key is not validated before the store write.
mutateWriteAnyKey(g, f, entries) ==
    LET written(normalized, scopeRef) ==
            IF f.op = "set"
            THEN [entries |-> StoreSet(g.store, entries, normalized, scopeRef, f.enabled),
                  err |-> NoError, writes |-> 1, calls |-> <<normalized>>]
            ELSE unsetAliases(g, StoreUnset(g.store, entries, normalized, scopeRef),
                              AliasesFor(normalized), scopeRef, f.writeErrAt,
                              <<normalized>>)
        stored(f1, al) ==
            [f |-> [f1 EXCEPT !.pc = "clear", !.nStoreWrite = al.writes, !.err = al.err,
                              !.writeCalls = al.calls,
                              !.prev = IF g.store = StoreStub
                                       THEN OverrideStateMissing
                                       ELSE RecordState(entries, f1.nkey, f1.scopeRef)],
             entries |-> al.entries]
        write(f1) ==
            IF ~g.hasWriter
            THEN [f |-> [f1 EXCEPT !.pc = "done", !.err = ErrStoreUnavailable],
                  entries |-> entries]
            ELSE IF f.writeErrAt = 1
            THEN [f |-> [f1 EXCEPT !.pc = "done", !.err = ErrStoreWrite,
                                   !.nStoreWrite = 1, !.writeCalls = <<f1.nkey>>],
                  entries |-> entries]
            ELSE stored(f1, written(f1.nkey, f1.scopeRef))
    IN  write([f EXCEPT !.nkey = NormalizeKey(TrimSpace(f.key)),
                        !.scopeRef = normalizeScopeRef(g.rolePermNormalizer, f.ref),
                        !.trace.Key = TrimSpace(f.key)])

\* Gate.Set / Gate.Unset up to the cache invalidation: validation and the
\* store write (for Unset, followed by unsetAliases).
mutateWrite(g, f, entries) ==
    LET written(normalized, scopeRef) ==
            IF f.op = "set"
            THEN [entries |-> StoreSet(g.store, entries, normalized, scopeRef, f.enabled),
                  err |-> NoError, writes |-> 1, calls |-> <<normalized>>]
            ELSE unsetAliases(g, StoreUnset(g.store, entries, normalized, scopeRef),
                              AliasesFor(normalized), scopeRef, f.writeErrAt,
                              <<normalized>>)
        stored(f1, al) ==
            [f |-> [f1 EXCEPT !.pc = "clear", !.nStoreWrite = al.writes, !.err = al.err,
                              !.writeCalls = al.calls,
                              !.prev = IF g.store = StoreStub
                                       THEN OverrideStateMissing
                                       ELSE RecordState(entries, f1.nkey, f1.scopeRef)],
             entries |-> al.entries]
        write(f1) ==
            IF ~g.hasWriter
            THEN [f |-> [f1 EXCEPT !.pc = "done", !.err = ErrStoreUnavailable],
                  entries |-> entries]
            ELSE IF f1.nkey = EmptyStr
            THEN [f |-> [f1 EXCEPT !.pc = "done", !.err = ErrInvalidKey],
                  entries |-> entries]
            ELSE IF f.writeErrAt = 1
            THEN [f |-> [f1 EXCEPT !.pc = "done", !.err = ErrStoreWrite,
                                   !.nStoreWrite = 1, !.writeCalls = <<f1.nkey>>],
                  entries |-> entries]
            ELSE stored(f1, written(f1.nkey, f1.scopeRef))
    IN  write([f EXCEPT !.nkey = NormalizeKey(TrimSpace(f.key)),
                        !.scopeRef = normalizeScopeRef(g.rolePermNormalizer, f.ref),
                        !.trace.Key = TrimSpace(f.key)])

\* Gate.Set / Gate.Unset: invalidateCache.
mutateClear(g, f, c) ==
    [f |-> [f EXCEPT !.pc = "notify", !.nCacheClear = @ + 1],
     cache |-> invalidateCache(g, c, f.nkey, f.scopeRef)]

\* Gate.Set / Gate.Unset: emitUpdate and return.
mutateNotify(g, f) ==
    [f EXCEPT !.pc = "done",
              !.updates = emitUpdate(g,
                  [Key |-> f.trace.Key, NormalizedKey |-> f.nkey,
                   Scope |-> f.scopeRef,
                   Actor |-> f.actor,
                   Action |-> f.op,
                   Value |-> IF f.op = "set"
                             THEN (IF f.enabled THEN "true" ELSE "false")
                             ELSE "nil"])]

\* One step of a call: at most one access to the store or to the cache, or
\* the calls of the activity hooks.
Step(g, f, entries, c) ==
    LET frame(nf) == [f |-> nf, entries |-> entries, cache |-> c]
        frameAndCache(r) == [f |-> r.f, entries |-> entries, cache |-> r.cache]
        frameAndStore(r) == [f |-> r.f, entries |-> r.entries, cache |-> c]
    IN  CASE f.pc = "start"    -> frame(resolveStart(g, f))
          [] f.pc = "cacheGet" -> frame(resolveCacheGet(g, f, c))
          [] f.pc = "store"    -> frame(resolveStore(g, f, entries))
          [] f.pc = "defaults" -> frame(resolveDefaults(g, f))
          [] f.pc = "cacheSet" -> frameAndCache(resolveCacheSet(g, f, c))
          [] f.pc = "write"    -> frameAndStore(mutateWrite(g, f, entries))
          [] f.pc = "clear"    -> frameAndCache(mutateClear(g, f, c))
          [] f.pc = "notify"   -> frame(mutateNotify(g, f))

RECURSIVE Run(_, _, _, _)
\* A whole call, run from its first step to its return without interleaving.
Run(g, f, entries, c) ==
    LET continue(r) == Run(g, r.f, r.entries, r.cache)
    IN  IF f.pc = "done" THEN [f |-> f, entries |-> entries, cache |-> c]
        ELSE continue(Step(g, f, entries, c))

(***************************************************************************)
(* gate/guard: Require                                                     *)
(***************************************************************************)

ClaimsFail == [err |-> TRUE, claims |-> NoClaims]

\* What Require returns: nil, an error of the gate as it is ("error") or as
\* the mapper returns it ("mapped"), a DisabledError with the key
\* ("disabled") or the error given with WithDisabledError ("disabledErr").
GuardResult(kind, err, key) == [kind |-> kind, err |-> err, key |-> key]

GuardNil == GuardResult("nil", NoError, EmptyStr)

\* guard.DisabledError{Key: key}, or the error given with WithDisabledError.
DisabledError(cfg, key) ==
    IF cfg.disabledErr THEN GuardResult("disabledErr", NoError, EmptyStr)
    ELSE GuardResult("disabled", NoError, key)

\* The func(error) error given with WithErrorMapper: none, one that returns
\* an error of its own for the gate's, and one that returns nil for it.
NoMapper == "none"

WrapMapper == "wrap"

NilMapper == "nil"

ErrorMappers == {NoMapper, WrapMapper, NilMapper}

\* guard.mapErr: the error, or what the mapper given with WithErrorMapper
\* returns for it.
mapErr(cfg, err) ==
    IF err = NoError THEN GuardNil
    ELSE IF cfg.errorMapper = NoMapper THEN GuardResult("error", err, EmptyStr)
    ELSE IF cfg.errorMapper = WrapMapper THEN GuardResult("mapped", err, EmptyStr)
    ELSE GuardNil

RECURSIVE requireSkipsErrors(_, _, _, _, _, _, _)
\* Variant of require: a failed query counts as a disabled key.
requireSkipsErrors(g, entries, c, keys, cfg, calls, key) ==
    LET queried(r, made) ==
            IF r.f.err = NoError /\ r.f.value
            THEN [result |-> GuardNil, calls |-> made, cache |-> r.cache]
            ELSE requireSkipsErrors(g, entries, r.cache, Tail(keys), cfg, made, key)
    IN  IF keys = <<>>
        THEN [result |-> DisabledError(cfg, key), calls |-> calls, cache |-> c]
        ELSE queried(Run(g, ResolveCall(Head(keys), NoChainGiven,
                                        IF cfg.errAt = Len(calls) + 1
                                        THEN ClaimsFail ELSE cfg.claims,
                                        [err |-> FALSE, perms |-> <<>>], 0, FALSE),
                         entries, c),
                     Append(calls, Head(keys)))

RECURSIVE require(_, _, _, _, _, _, _)
\* guard.Require on a gate that is not nil: fg.Enabled for the key and then
\* for the override keys, up to the first that fails or is enabled. keys
\* holds the keys still to query, calls those queried; the claims provider
\* fails in the call numbered cfg.errAt.
require(g, entries, c, keys, cfg, calls, key) ==
    LET queried(r, made) ==
            IF r.f.err # NoError
            THEN [result |-> mapErr(cfg, r.f.err), calls |-> made, cache |-> r.cache]
            ELSE IF r.f.value
            THEN [result |-> GuardNil, calls |-> made, cache |-> r.cache]
            ELSE require(g, entries, r.cache, Tail(keys), cfg, made, key)
    IN  IF keys = <<>>
        THEN [result |-> DisabledError(cfg, key), calls |-> calls, cache |-> c]
        ELSE queried(Run(g, ResolveCall(Head(keys), NoChainGiven,
                                        IF cfg.errAt = Len(calls) + 1
                                        THEN ClaimsFail ELSE cfg.claims,
                                        [err |-> FALSE, perms |-> <<>>], 0, FALSE),
                         entries, c),
                     Append(calls, Head(keys)))

(***************************************************************************)
(* Bounds and the inputs the calls are drawn from                          *)
(***************************************************************************)

\* Set/Unset calls per behaviour.
MaxWrites == 2
\* Enabled/ResolveWithTrace calls per behaviour.
MaxResolves == 2

K1 == <<"k">>
K2 == <<"j">>
TenantT == <<"t">>
UserU == <<"u">>

TenantRef   == ScopeRef(ScopeTenant, TenantT, TenantT, EmptyStr)
TenantIdRef == ScopeRef(ScopeTenant, TenantT, EmptyStr, EmptyStr)
UserRef     == ScopeRef(ScopeUser, UserU, TenantT, EmptyStr)
RoleRef(id) == ScopeRef(ScopeRole, id, EmptyStr, EmptyStr)
PermRef(id) == ScopeRef(ScopePerm, id, EmptyStr, EmptyStr)

ClaimsUT == ActorClaims(UserU, TenantT, EmptyStr, <<>>, <<>>)

On  == [Set |-> TRUE, Value |-> TRUE]
Off == [Set |-> TRUE, Value |-> FALSE]

\* staticDefaults maps: every key is configured true, configured false and
\* not configured in one of them.
DefaultsMaps ==
    { [x \in {K1} |-> On],
      [x \in {K1, K2} |-> IF x = K1 THEN Off ELSE On],
      [x \in {K2} |-> Off] }

\* The ID of the gate.ActorRef a Set or Unset is made for.
ActorA == "actor-a"
ActorB == "actor-b"

\* A universe of the shipped build (an empty alias table): the gates that may
\* be constructed, the contents their store starts with (empty unless said
\* otherwise), and the arguments and collaborator outcomes calls are drawn
\* from.
Universe(name, gates, keys, refs, requests, claims, perms, faults) ==
    [name |-> name, aliases |-> {}, seeds |-> {NewMemoryStore},
     stores |-> {NewMemoryStore},
     actors |-> {ActorA},
     gates |-> gates, keys |-> keys, refs |-> refs,
     requests |-> requests, claims |-> claims, perms |-> perms,
     getErrs |-> IF faults THEN {0, 1} ELSE {0},
     defErrs |-> IF faults THEN {FALSE, TRUE} ELSE {FALSE},
     writeErrs |-> IF faults THEN {0, 1} ELSE {0}]

NoPermissions == [err |-> FALSE, perms |-> <<>>]
ClaimsOk(claims) == [err |-> FALSE, claims |-> claims]

\* Tenant and user overrides, every default, no collaborator failure.
TenantUniverse ==
    Universe("tenant",
             {NewGate(d) : d \in DefaultsMaps},
             {<<" ", "k">>},
             {TenantRef, TenantIdRef, UserRef},
             {NoChainGiven, WithScopeChain(<<TenantRef, SystemRef>>)},
             {ClaimsOk(ClaimsUT)},
             {NoPermissions},
             FALSE)

\* Two keys and two chains over a caching gate, no collaborator failure.
CacheUniverse ==
    Universe("cache",
             {NewGate([x \in {K1} |-> On])},
             {K1, K2},
             {TenantRef},
             {NoChainGiven, WithScopeChain(<<TenantRef, SystemRef>>)},
             {ClaimsOk(ClaimsUT)},
             {NoPermissions},
             FALSE)

RoleA == <<"a">>
RoleB == <<"b">>
PermP == <<"p">>

\* An actor whose roles arrive unsorted and in mixed case.
ClaimsRoles == ActorClaims(UserU, EmptyStr, EmptyStr, <<RoleB, <<"A">>>>, <<PermP>>)

\* Role and permission overrides, with sorted and with preserved role order.
RoleUniverse ==
    Universe("role",
             {[NewGate([x \in {K1} |-> On]) EXCEPT !.preserveRolePermOrder = keep] :
                 keep \in BOOLEAN},
             {K1},
             {RoleRef(RoleA), RoleRef(RoleB), PermRef(PermP)},
             {NoChainGiven, WithScopeChain(<<PermRef(PermP), RoleRef(RoleA)>>)},
             {ClaimsOk(ClaimsRoles)},
             {NoPermissions},
             FALSE)

\* One key, one chain and one scope, for calls that interleave.
ConcUniverse ==
    Universe("concurrent",
             {NewGate([x \in {K1} |-> On])},
             {K1},
             {TenantRef},
             {WithScopeChain(<<TenantRef, SystemRef>>)},
             {ClaimsOk(ClaimsUT)},
             {NoPermissions},
             FALSE)

\* A failing store and failing defaults, in permissive and in strict mode.
FaultUniverse ==
    Universe("fault",
             {[NewGate(d) EXCEPT !.strictStore = strict] :
                 d \in {[x \in {K1} |-> On], [x \in {K2} |-> On]},
                 strict \in BOOLEAN},
             {K1, <<" ">>},
             {TenantRef},
             {WithScopeChain(<<TenantRef, SystemRef>>)},
             {ClaimsOk(ClaimsUT)},
             {NoPermissions},
             TRUE)

\* A gate with two resolve hooks and two activity hooks registered.
HookedGate == [NewGate([x \in {K1} |-> On]) EXCEPT !.hooks = 2, !.updateHooks = 2]

\* Every way a call can end: a failing store, a failing strategy, failing
\* defaults and a failing claims provider, over a permissive, a strict and a
\* fail-closed gate, the last without a default for K1, and a gate without a
\* writer.
ExitUniverse ==
    Universe("exit",
             {HookedGate,
              [HookedGate EXCEPT !.strictStore = TRUE],
              [HookedGate EXCEPT !.strictStore = TRUE, !.strategy = "failing"],
              [HookedGate EXCEPT !.failureMode = FailClosed,
                                 !.defaults = [x \in {K2} |-> On]],
              [HookedGate EXCEPT !.hasWriter = FALSE]},
             {K1, <<" ">>},
             {TenantRef},
             {WithScopeChain(<<TenantRef, SystemRef>>), NoChainGiven},
             {ClaimsOk(ClaimsUT), ClaimsFail},
             {NoPermissions},
             TRUE)

\* Failing claims and permission providers under every claims-failure
\* configuration.
ClaimsUniverse ==
    Universe("claims",
             LET g == NewGate([x \in {K1} |-> On])
             IN  {g,
                  [g EXCEPT !.failureMode = FailClosed],
                  [g EXCEPT !.failureMode = FailClosed, !.hasPermissionProvider = TRUE],
                  [g EXCEPT !.failureFallbackChain = <<TenantRef>>,
                            !.hasPermissionProvider = TRUE],
                  [g EXCEPT !.failureFallbackChain = <<TenantRef>>,
                            !.appendSystemOnFailure = FALSE],
                  [g EXCEPT !.failureFallbackChain = <<TenantRef>>,
                            !.appendSystemOnFailure = FALSE,
                            !.appendSystemOnProvidedChain = TRUE]},
             {K1},
             {SystemRef, TenantRef},
             {NoChainGiven, WithScopeChain(<<TenantRef, SystemRef>>),
              WithScopeChain(<<TenantRef>>)},
             {ClaimsOk(ClaimsUT), ClaimsFail},
             {NoPermissions, [err |-> TRUE, perms |-> <<>>]},
             FALSE)

KeyB == <<"b">>

\* The alias table of the builds that shipped legacy aliases: K2 and KeyB are
\* legacy names of K1.
LegacyAliases == {<<K2, K1>>, <<KeyB, K1>>}

\* The contents a stubStore is created with: an enabled, disabled or unset
\* record under any of the canonical key and its legacy names.
StubSeeds ==
    UNION {[S -> {EnabledOverride, DisabledOverride, UnsetOverride}] :
              S \in SUBSET {K1, K2, KeyB}}

\* A build with legacy aliases: a gate over the memory store and a gate over
\* a stubStore, called with the canonical key and with a legacy name.
AliasUniverse ==
    [Universe("alias",
              {NewGate([x \in {K1} |-> Off]),
               [NewGate([x \in {K1} |-> Off]) EXCEPT !.store = StoreStub]},
              {K1, K2},
              {TenantRef},
              {WithScopeChain(<<TenantRef, SystemRef>>)},
              {ClaimsOk(ClaimsUT)},
              {NoPermissions},
              FALSE)
     EXCEPT !.aliases = LegacyAliases, !.seeds = StubSeeds]

\* A build with legacy aliases whose gate has activity hooks: Set and Unset
\* for either of two actors, under a legacy name and under a padded key, at
\* a scope that needs no normalisation and at one that does, the store failing
\* the first or the second write of a call.
ActivityUniverse ==
    [Universe("activity",
              {[NewGate([x \in {K1} |-> Off]) EXCEPT !.updateHooks = 2]},
              {K2, <<" ", "k">>},
              {TenantRef, RoleRef(<<" ", "A">>)},
              {WithScopeChain(<<TenantRef, SystemRef>>)},
              {ClaimsOk(ClaimsUT)},
              {NoPermissions},
              FALSE)
     EXCEPT !.aliases = LegacyAliases, !.actors = {ActorA, ActorB},
            !.writeErrs = {0, 1, 2}]

KeyP == <<"p">>

\* A build with legacy aliases: writes under the canonical key k, its legacy
\* name j and an unrelated key p, at the user, tenant and system scopes of
\* one chain.
PointUniverse ==
    [Universe("point",
              {[NewGate([x \in {K1} |-> On]) EXCEPT !.cacheKind = "noop"]},
              {K1, K2, KeyP},
              {UserRef, TenantRef, SystemRef},
              {NoChainGiven},
              {ClaimsOk(ClaimsUT)},
              {NoPermissions},
              FALSE)
     EXCEPT !.aliases = LegacyAliases]

OrgO == <<"o">>

\* An actor of tenant t and organisation o holding role a and permission p,
\* and the scopes of the chain built for it that carry records.
ClaimsFull == ActorClaims(UserU, TenantT, OrgO, <<RoleA>>, <<PermP>>)
UserFullRef == ScopeRef(ScopeUser, UserU, TenantT, OrgO)
OrgRef == ScopeRef(ScopeOrg, OrgO, TenantT, OrgO)
SeedScopes == {UserFullRef, RoleRef(RoleA), PermRef(PermP), OrgRef, TenantRef, SystemRef}

\* Records a store starts with, at most.
MaxSeeded == 2

\* The memory store after the Set and Unset calls that leave the records rec
\* (scope -> Override) under K1.
MemoryOf(rec) ==
    IF DOMAIN rec = {} THEN NewMemoryStore
    ELSE [k \in {K1} |->
            [sk \in {scopeKeyFromRef(r) : r \in DOMAIN rec} |->
                rec[CHOOSE r \in DOMAIN rec : scopeKeyFromRef(r) = sk]]]

\* Stores holding enabled, disabled and unset records at up to MaxSeeded of
\* the given scopes.
StoresOver(scopes) ==
    {MemoryOf(rec) :
        rec \in UNION {[S -> {EnabledOverride, DisabledOverride, UnsetOverride}] :
                          S \in {T \in SUBSET scopes : Cardinality(T) <= MaxSeeded}}}

MemorySeeds == StoresOver(SeedScopes)

\* A second tenant, and chains given with WithScopeChain that name both
\* tenants, in either order, before or after the user.
TenantORef == ScopeRef(ScopeTenant, OrgO, OrgO, EmptyStr)

\* Scope orders: the default, its reverse, and one that names perm first and
\* role after user.
ReverseScopeOrder ==
    <<ScopeSystem, ScopeTenant, ScopeOrg, ScopePerm, ScopeRole, ScopeUser>>
SplitScopeOrder ==
    <<ScopePerm, ScopeUser, ScopeRole, ScopeOrg, ScopeTenant, ScopeSystem>>

\* Records at two scopes of one group and at a scope of another, resolved
\* over chains given by the caller under the default and the reverse order.
GroupUniverse ==
    [Universe("group",
              {[NewGate([x \in {K1} |-> On]) EXCEPT !.scopeOrder = order] :
                  order \in {defaultScopeOrder, ReverseScopeOrder}},
              {K1},
              {TenantRef},
              {WithScopeChain(<<TenantRef, TenantORef, UserFullRef>>),
               WithScopeChain(<<UserFullRef, TenantORef, TenantRef>>)},
              {ClaimsOk(ClaimsFull)},
              {NoPermissions},
              FALSE)
     EXCEPT !.stores = StoresOver({TenantRef, TenantORef, UserFullRef})]

\* Stores with records in several groups, resolved for one actor under each
\* scope order.
StrategyUniverse ==
    [Universe("strategy",
              {[NewGate([x \in {K1} |-> On]) EXCEPT !.scopeOrder = order] :
                  order \in {defaultScopeOrder, ReverseScopeOrder, SplitScopeOrder}},
              {K1},
              {TenantRef},
              {NoChainGiven},
              {ClaimsOk(ClaimsFull)},
              {NoPermissions},
              FALSE)
     EXCEPT !.stores = MemorySeeds]

\* Role names as a claims provider may deliver them: in either case, padded.
RoleNames == {<<"a">>, <<"A">>, <<" ", "b">>, <<"b">>}

\* Roles in the claims of an actor, at most.
MaxRoles == 2

SeqsUpTo(S, n) == UNION {[1..k -> S] : k \in 0..n}

\* Claims of one actor of tenant t whose roles come in any order, repeated,
\* in either case and padded, with no permission or one delivered twice.
ChainClaims ==
    {ClaimsOk(ActorClaims(UserU, TenantT, EmptyStr, roles, perms)) :
        roles \in SeqsUpTo(RoleNames, MaxRoles),
        perms \in {<<>>, <<PermP, <<" ", "p">>>>}}

\* Chains built from claims by a gate that sorts roles and permissions, one
\* that keeps the provider's order and one whose normalizer keeps the case.
ChainUniverse ==
    Universe("chain",
             LET g == [NewGate([x \in {K1} |-> On]) EXCEPT !.cacheKind = "noop"]
             IN  {g,
                  [g EXCEPT !.preserveRolePermOrder = TRUE],
                  [g EXCEPT !.rolePermNormalizer = NormalizerIdentity]},
             {K1},
             {RoleRef(RoleA)},
             {NoChainGiven},
             ChainClaims,
             {NoPermissions},
             FALSE)

\* Role names as a claims provider may deliver them: blank, empty, padded,
\* in either case.
BuilderNames == {<<"a">>, <<"A", " ">>, <<" ">>, EmptyStr, <<"b">>}

\* Claims with and without subject, tenant and organisation, with any list
\* of roles and with no permission or one delivered twice.
BuilderClaims ==
    {ClaimsOk(ActorClaims(subject, tenant, org, roles, perms)) :
        subject \in {EmptyStr, UserU}, tenant \in {EmptyStr, TenantT},
        org \in {EmptyStr, OrgO},
        roles \in SeqsUpTo(BuilderNames, MaxRoles),
        perms \in {<<>>, <<PermP, <<" ", "p">>>>}}

\* A scope order without system, role and org.
ShortScopeOrder == <<ScopeTenant, ScopePerm, ScopeUser>>

\* Chains built from claims by a gate that sorts roles and permissions, one
\* that keeps the provider's order, one with a scope order that omits kinds
\* and one with the reverse order, which names system first.
BuilderUniverse ==
    Universe("builder",
             LET g == [NewGate([x \in {K1} |-> On]) EXCEPT !.cacheKind = "noop"]
             IN  {g,
                  [g EXCEPT !.preserveRolePermOrder = TRUE],
                  [g EXCEPT !.scopeOrder = ShortScopeOrder],
                  [g EXCEPT !.scopeOrder = ReverseScopeOrder]},
             {K1},
             {RoleRef(RoleA)},
             {NoChainGiven},
             BuilderClaims,
             {NoPermissions},
             FALSE)

\* Override keys given to Require with WithOverrides, at most.
MaxOverrides == 2

\* Gates for Require: K2 or no key enabled by default and failing closed
\* when the claims provider fails, and one with K2 enabled that fails open.
GuardUniverse ==
    Universe("guard",
             LET g(d1, d2) ==
                     [NewGate([x \in {K1, K2} |-> IF x = K1 THEN d1 ELSE d2])
                         EXCEPT !.failureMode = FailClosed, !.cacheKind = "noop"]
             IN  {g(Off, On), g(Off, Off),
                  [g(Off, On) EXCEPT !.failureMode = FailOpen]},
             {K1, K2},
             {SystemRef},
             {NoChainGiven},
             {ClaimsOk(ClaimsUT)},
             {NoPermissions},
             FALSE)

\* Overrides of one key at a tenant and at a user scope, written through
\* the gate and removed behind its back.
StoreUniverse ==
    Universe("store",
             {NewGate([x \in {K1} |-> On])},
             {K1},
             {TenantRef, UserRef},
             {NoChainGiven},
             {ClaimsOk(ClaimsUT)},
             {NoPermissions},
             FALSE)

(***************************************************************************)
(* State                                                                   *)
(***************************************************************************)

VARIABLES
    gate,      \* the Gate's configuration, fixed at construction
    entries,   \* the override store: MemoryStore.entries, key -> scopeKey ->
               \* Override, or stubStore.overrides, key -> Override
    cache,     \* the cache: <<key, chain>> -> Entry
    last,      \* the call that returned last (history)
    lastMut,   \* the Set/Unset that returned last (history)
    rt,        \* progress of a resolve, Set(true), Unset sequence (history)
    nWrites,   \* Set/Unset calls made
    nResolves, \* resolve calls made
    threads,   \* the call each goroutine is in, when calls run concurrently
    linear     \* the memory store as the writes that have released its lock
               \* leave it, applied whole and one after the other (history)

vars == <<gate, uni, entries, cache, last, lastMut, rt, nWrites, nResolves, threads,
          linear>>

NoRoundTrip ==
    [phase |-> "none", key |-> EmptyStr, ref |-> ZeroScopeRef, chain |-> <<>>,
     value |-> FALSE, source |-> "", prev |-> OverrideStateMissing]

\* What is remembered of a returned call: its frame without the collaborator
\* outcomes it did not consume.
Summary(f) ==
    [f EXCEPT !.key = EmptyStr,
              !.req = [given |-> f.req.given, chain |-> <<>>],
              !.claimsOut = IF f.nClaims > 0 THEN f.claimsOut
                            ELSE IdleFrame.claimsOut,
              !.permOut = IF f.nPerms > 0 THEN f.permOut ELSE IdleFrame.permOut,
              !.getErrAt = 0,
              !.defErr = IF f.nDefaults > 0 THEN f.defErr ELSE FALSE,
              !.writeErrAt = IF f.nStoreWrite > 0 THEN f.writeErrAt ELSE 0]

\* The goroutines that call the Gate concurrently.
Threads == {"g1", "g2"}

InitIn(universe) ==
    /\ uni = universe
    /\ gate \in uni.gates
    /\ entries \in IF gate.store = StoreStub THEN uni.seeds ELSE uni.stores
    /\ cache = <<>>
    /\ last = IdleFrame
    /\ lastMut = IdleFrame
    /\ rt = NoRoundTrip
    /\ nWrites = 0
    /\ nResolves = 0
    /\ threads = [t \in Threads |-> IdleFrame]
    /\ linear = NewMemoryStore

(***************************************************************************)
(* Calls, one at a time                                                    *)
(***************************************************************************)

\* The last call was a resolve of a permissive gate during which the read
\* of the override store failed, and f resolves the same key and chain.
Outage(f) ==
    /\ last.op = "resolve"
    /\ last.storeErr # NoError
    /\ ~gate.strictStore
    /\ last.nkey = f.nkey
    /\ last.chain = f.chain

\* Enabled / ResolveWithTrace
Resolve(key, req, claimsOut, permOut, getErrAt, defErr) ==
    LET returned(r) ==
            /\ last' = [Summary(r.f) EXCEPT !.afterOutage = Outage(r.f)]
            /\ cache' = r.cache
    IN  /\ nResolves < MaxResolves
        /\ nResolves' = nResolves + 1
        /\ returned(Run(gate, ResolveCall(key, req, claimsOut, permOut, getErrAt, defErr),
                        entries, cache))
        /\ UNCHANGED <<gate, uni, linear, entries, lastMut, rt, nWrites, threads>>

\* The history of a resolve, Set(key, ref, true), [resolve], Unset(key, ref),
\* [resolve] sequence on one key and one chain.
RoundTripAfter(f) ==
    IF f.op = "set" /\ f.err = NoError /\ f.enabled
       /\ last.op = "resolve" /\ last.err = NoError /\ last.nkey = f.nkey
    THEN [phase |-> "set", key |-> f.nkey, ref |-> f.ref, chain |-> last.chain,
          value |-> last.value, source |-> last.trace.Source, prev |-> f.prev]
    ELSE IF f.op = "unset" /\ f.err = NoError /\ rt.phase = "set"
            /\ rt.key = f.nkey /\ rt.ref = f.ref
    THEN [rt EXCEPT !.phase = "unset"]
    ELSE NoRoundTrip

Mutate(call) ==
    LET returned(r) ==
            /\ entries' = r.entries
            /\ cache' = r.cache
            /\ last' = Summary(r.f)
            /\ lastMut' = Summary(r.f)
            /\ rt' = RoundTripAfter(r.f)
    IN  /\ nWrites < MaxWrites
        /\ nWrites' = nWrites + 1
        /\ returned(Run(gate, call, entries, cache))
        /\ UNCHANGED <<gate, uni, linear, nResolves, threads>>

\* Gate.Set
Set(key, ref, enabled, actor, writeErrAt) ==
    Mutate(SetCall(key, ref, enabled, actor, writeErrAt))

\* Gate.Unset
Unset(key, ref, actor, writeErrAt) == Mutate(UnsetCall(key, ref, actor, writeErrAt))

Next ==
    \/ \E key \in uni.keys, req \in uni.requests, co \in uni.claims, po \in uni.perms,
          ge \in uni.getErrs, de \in uni.defErrs :
          Resolve(key, req, co, po, ge, de)
    \/ \E key \in uni.keys, ref \in uni.refs, enabled \in BOOLEAN,
          actor \in uni.actors, we \in uni.writeErrs :
          Set(key, ref, enabled, actor, we)
    \/ \E key \in uni.keys, ref \in uni.refs, actor \in uni.actors,
          we \in uni.writeErrs :
          Unset(key, ref, actor, we)

Init == InitIn(TenantUniverse)

Spec == Init /\ [][Next]_vars

InitCache == InitIn(CacheUniverse)

CacheSpec == InitCache /\ [][Next]_vars

InitRole == InitIn(RoleUniverse)

RoleSpec == InitRole /\ [][Next]_vars

InitFault == InitIn(FaultUniverse)

FaultSpec == InitFault /\ [][Next]_vars

InitClaims == InitIn(ClaimsUniverse)

ClaimsSpec == InitClaims /\ [][Next]_vars

InitAlias == InitIn(AliasUniverse)

AliasSpec == InitAlias /\ [][Next]_vars

InitExit == InitIn(ExitUniverse)

InitActivity == InitIn(ActivityUniverse)

ActivitySpec == InitActivity /\ [][Next]_vars

ExitSpec == InitExit /\ [][Next]_vars

(***************************************************************************)
(* The memory store used directly, next to the gate                        *)
(***************************************************************************)

\* What is remembered of a call made on the store itself.
StoreCall(op, key, ref) ==
    [IdleFrame EXCEPT !.op = op, !.nkey = NormalizeKey(TrimSpace(key)),
                      !.ref = ref, !.scopeRef = ref]

\* MemoryStore.Delete, called on the store the gate reads.
Delete(key, ref) ==
    /\ gate.store = StoreMemory
    /\ nWrites < MaxWrites
    /\ nWrites' = nWrites + 1
    /\ entries' = MemoryDelete(entries, key, ref).entries
    /\ last' = [StoreCall("delete", key, ref) EXCEPT
                   !.prev = RecordState(entries, NormalizeKey(TrimSpace(key)), ref),
                   !.value = MemoryDelete(entries, key, ref).deleted]
    /\ UNCHANGED <<gate, uni, linear, cache, lastMut, rt, nResolves, threads>>

\* MemoryStore.Clear, called on the store the gate reads.
Clear ==
    /\ gate.store = StoreMemory
    /\ nWrites < MaxWrites
    /\ nWrites' = nWrites + 1
    /\ entries' = MemoryClear(entries)
    /\ last' = StoreCall("clear", EmptyStr, ZeroScopeRef)
    /\ UNCHANGED <<gate, uni, linear, cache, lastMut, rt, nResolves, threads>>

StoreNext ==
    \/ Next
    \/ \E key \in uni.keys, ref \in uni.refs : Delete(key, ref)
    \/ Clear

InitStrategy == InitIn(StrategyUniverse)

\* Resolutions alone, over the store as it was found.
ResolveNext ==
    \E key \in uni.keys, req \in uni.requests, co \in uni.claims, po \in uni.perms,
       ge \in uni.getErrs, de \in uni.defErrs :
       Resolve(key, req, co, po, ge, de)

StrategySpec == InitStrategy /\ [][ResolveNext]_vars

\* Writes alone.
WriteNext ==
    \/ \E key \in uni.keys, ref \in uni.refs, enabled \in BOOLEAN, actor \in uni.actors,
          we \in uni.writeErrs :
          Set(key, ref, enabled, actor, we)
    \/ \E key \in uni.keys, ref \in uni.refs, actor \in uni.actors, we \in uni.writeErrs :
          Unset(key, ref, actor, we)

InitPoint == InitIn(PointUniverse)

PointSpec == InitPoint /\ [][WriteNext]_vars

InitGroup == InitIn(GroupUniverse)

GroupSpec == InitGroup /\ [][ResolveNext]_vars

\* guard.Require(ctx, fg, key, opts...): fgNil tells that fg is nil; otherwise
\* fg is the gate.
Require(fgNil, key, cfg) ==
    LET returned(r) ==
            /\ cache' = r.cache
            /\ last' = [IdleFrame EXCEPT
                           !.op = "require",
                           !.guard = [fgNil |-> fgNil, key |-> key,
                                      overrides |-> cfg.overrides, errAt |-> cfg.errAt,
                                      errorMapper |-> cfg.errorMapper,
                                      disabledErr |-> cfg.disabledErr,
                                      calls |-> r.calls, result |-> r.result]]
    IN  /\ returned(IF fgNil
                    THEN [result |-> GuardNil, calls |-> <<>>, cache |-> cache]
                    ELSE require(gate, entries, cache, <<key>> \o cfg.overrides, cfg,
                                 <<>>, key))
        /\ UNCHANGED <<gate, uni, linear, entries, lastMut, rt, nWrites, nResolves, threads>>

\* Require with a nil gate and one override key, and with the gate and every
\* list of override keys.
GuardNext ==
    \E key \in uni.keys, co \in uni.claims :
        \/ Require(TRUE, key,
                   [overrides |-> <<K2>>, errAt |-> 0, claims |-> co,
                    errorMapper |-> NoMapper, disabledErr |-> FALSE])
        \/ \E overrides \in SeqsUpTo(uni.keys, MaxOverrides),
              mapper \in ErrorMappers :
              \E errAt \in 0..(Len(overrides) + 1) :
                  Require(FALSE, key,
                          [overrides |-> overrides, errAt |-> errAt, claims |-> co,
                           errorMapper |-> mapper,
                           disabledErr |-> (mapper = WrapMapper)])

InitGuard == InitIn(GuardUniverse)

GuardSpec == InitGuard /\ [][GuardNext]_vars

\* One gate and one claims value, resolved.
InitBuilder ==
    \E co \in BuilderUniverse.claims :
        InitIn([BuilderUniverse EXCEPT !.claims = {co}])

BuilderSpec == InitBuilder /\ [][ResolveNext]_vars

\* The gates, requests and provider outcomes of ClaimsUniverse over stores
\* that hold records at the tenant and at system.
ProvidedUniverse ==
    [ClaimsUniverse EXCEPT !.name = "provided",
                           !.stores = StoresOver({TenantRef, SystemRef})]

InitProvided == InitIn(ProvidedUniverse)

ProvidedSpec == InitProvided /\ [][ResolveNext]_vars

\* Chains given by the caller that leave out scopes the store has records
\* for, under the default order and under orders that leave out kinds.
MatchUniverse ==
    [Universe("match",
              {[NewGate([x \in {K1} |-> On]) EXCEPT !.cacheKind = "noop",
                                                    !.scopeOrder = order] :
                  order \in {defaultScopeOrder, ShortScopeOrder,
                             <<ScopeSystem, ScopeRole>>}},
              {K1},
              {TenantRef},
              {WithScopeChain(<<UserFullRef, RoleRef(RoleA), PermRef(PermP), TenantRef,
                                SystemRef>>),
               WithScopeChain(<<TenantRef, RoleRef(RoleA)>>)},
              {ClaimsOk(ClaimsFull)},
              {NoPermissions},
              FALSE)
     EXCEPT !.stores = MemorySeeds]

InitMatch == InitIn(MatchUniverse)

MatchSpec == InitMatch /\ [][ResolveNext]_vars

\* Overrides written at roles and a permission given padded and in upper
\* case, resolved for actors whose claims carry them in another case and
\* padding, with and without a tenant, under the default normalizer and
\* under one that returns the identifier as it is.
TargetUniverse ==
    Universe("target",
             LET g == [NewGate([x \in {K1} |-> On]) EXCEPT !.cacheKind = "noop"]
             IN  {g, [g EXCEPT !.rolePermNormalizer = NormalizerIdentity],
                  [g EXCEPT !.preserveRolePermOrder = TRUE]},
             {K1},
             {RoleRef(<<" ", "A">>), RoleRef(<<"b">>), PermRef(<<"B", " ">>)},
             {NoChainGiven},
             {ClaimsOk(ActorClaims(UserU, tenant, EmptyStr, roles, <<<<" ", "b">>>>)) :
                 tenant \in {EmptyStr, TenantT},
                 roles \in {<<<<"a">>>>, <<<<"A", " ">>, <<"B">>>>}},
             {NoPermissions},
             FALSE)

InitTarget == InitIn(TargetUniverse)

TargetSpec == InitTarget /\ [][Next]_vars

InitChain == InitIn(ChainUniverse)

ChainSpec == InitChain /\ [][ResolveNext]_vars

InitStore == InitIn(StoreUniverse)

StoreSpec == InitStore /\ [][StoreNext]_vars

(***************************************************************************)
(* Calls of several goroutines, interleaved at their store and cache       *)
(* accesses                                                                *)
(***************************************************************************)

\* Goroutine t enters Enabled / ResolveWithTrace.
CallResolve(t, key, req, claimsOut, permOut, getErrAt, defErr) ==
    /\ threads[t].pc = "done"
    /\ nResolves < MaxResolves
    /\ nResolves' = nResolves + 1
    /\ threads' = [threads EXCEPT
                      ![t] = ResolveCall(key, req, claimsOut, permOut, getErrAt, defErr)]
    /\ UNCHANGED <<gate, uni, linear, entries, cache, last, lastMut, rt, nWrites>>

\* Goroutine t enters Set or Unset.
CallMutate(t, call) ==
    /\ threads[t].pc = "done"
    /\ nWrites < MaxWrites
    /\ nWrites' = nWrites + 1
    /\ threads' = [threads EXCEPT ![t] = call]
    /\ UNCHANGED <<gate, uni, linear, entries, cache, last, lastMut, rt, nResolves>>

\* Goroutine t takes the next step of its call; a call that returns becomes
\* the last call.
StepThread(t) ==
    LET stepped(r) ==
            /\ threads' = [threads EXCEPT ![t] = r.f]
            /\ entries' = r.entries
            /\ cache' = r.cache
            /\ last' = IF r.f.pc = "done" THEN Summary(r.f) ELSE last
            /\ lastMut' = IF r.f.pc = "done" /\ r.f.op # "resolve"
                          THEN Summary(r.f) ELSE lastMut
    IN  /\ threads[t].pc # "done"
        /\ stepped(Step(gate, threads[t], entries, cache))
        /\ UNCHANGED <<gate, uni, linear, rt, nWrites, nResolves>>

ConcNext ==
    \/ \E t \in Threads, key \in uni.keys, req \in uni.requests, co \in uni.claims,
          po \in uni.perms, ge \in uni.getErrs, de \in uni.defErrs :
          CallResolve(t, key, req, co, po, ge, de)
    \/ \E t \in Threads, key \in uni.keys, ref \in uni.refs, enabled \in BOOLEAN,
          actor \in uni.actors, we \in uni.writeErrs :
          CallMutate(t, SetCall(key, ref, enabled, actor, we))
    \/ \E t \in Threads, key \in uni.keys, ref \in uni.refs, actor \in uni.actors,
          we \in uni.writeErrs :
          CallMutate(t, UnsetCall(key, ref, actor, we))
    \/ \E t \in Threads : StepThread(t)

InitConc == InitIn(ConcUniverse)

ConcSpec == InitConc /\ [][ConcNext]_vars

(***************************************************************************)
(* store: calls on the MemoryStore of several goroutines, interleaved at   *)
(* the acquisitions of its lock and at each access to its maps             *)
(***************************************************************************)

\* A goroutine outside every call on the store.
MemIdle ==
    [op |-> "none", pc |-> "done", nkey |-> EmptyStr, ref |-> ZeroScopeRef,
     enabled |-> FALSE, chain |-> <<>>, at |-> 0, got |-> <<>>, deleted |-> FALSE,
     seen |-> {}]

\* A call of Set, Unset, Delete or Clear: the key is normalized before the
\* lock is asked for.
MemWriteCall(op, key, ref, enabled) ==
    [MemIdle EXCEPT !.op = op, !.pc = "lock", !.nkey = NormalizeKey(TrimSpace(key)),
                    !.ref = ref, !.enabled = enabled]

\* A call of GetAll; seen collects the contents the store has, between whole
\* writes, from the call to its return.
MemGetAllCall(key, chain, store) ==
    [MemIdle EXCEPT !.op = "getAll", !.pc = "rlock",
                    !.nkey = NormalizeKey(TrimSpace(key)), !.chain = chain,
                    !.seen = {store}]

\* The goroutine holds m.mu for writing.
HoldsLock(f) == f.op \in {"set", "unset", "delete", "clear"} /\ f.pc \notin {"lock", "done"}

\* The goroutine holds m.mu for reading.
HoldsRLock(f) == f.op = "getAll" /\ f.pc \notin {"rlock", "done"}

\* Variant of muRLock: readers are let in while a writer holds the lock.
muRLockUnguarded(ts, t) == TRUE

\* m.mu.RLock() returns for goroutine t: no goroutine holds the lock for
\* writing.
muRLock(ts, t) == \A u \in DOMAIN ts \ {t} : ~HoldsLock(ts[u])

\* m.mu.Lock() returns for goroutine t: no goroutine holds the lock.
muLock(ts, t) == \A u \in DOMAIN ts \ {t} : ~HoldsLock(ts[u]) /\ ~HoldsRLock(ts[u])

\* The whole write of a call, as the store applies it to its contents e.
MemWriteOf(f, e) ==
    CASE f.op = "set"    -> MemorySet(e, f.nkey, f.ref, f.enabled)
      [] f.op = "unset"  -> MemoryUnset(e, f.nkey, f.ref)
      [] f.op = "delete" -> MemoryDelete(e, f.nkey, f.ref).entries
      [] f.op = "clear"  -> MemoryClear(e)

\* One step of a call on the store that holds the lock or is granted it: an
\* acquisition, one access to the maps, or the deferred release.
MemStep(f, e) ==
    LET sk     == scopeKeyFromRef(f.ref)
        inner  == EntriesFor(e, f.nkey)
        to(pc) == [f |-> [f EXCEPT !.pc = pc], entries |-> e]
        put(o) == [f |-> [f EXCEPT !.pc = "unlock"],
                   entries |-> [e EXCEPT ![f.nkey] =
                                   [s \in DOMAIN inner \cup {sk} |->
                                       IF s = sk THEN o ELSE inner[s]]]]
    IN  CASE f.pc \in {"lock", "rlock"} ->
               to(CASE f.op \in {"set", "unset"} -> "ensure"
                    [] f.op = "delete" -> "check"
                    [] f.op = "clear"  -> "reset"
                    [] f.op = "getAll" -> "load")
          \* if m.entries[normalized] == nil { m.entries[normalized] = map... }
          [] f.pc = "ensure" ->
               [f |-> [f EXCEPT !.pc = "put"],
                entries |-> IF f.nkey \in DOMAIN e THEN e
                            ELSE [k \in DOMAIN e \cup {f.nkey} |->
                                     IF k = f.nkey THEN <<>> ELSE e[k]]]
          \* m.entries[normalized][scope] = override
          [] f.pc = "put" ->
               put(IF f.op = "unset" THEN UnsetOverride
                   ELSE IF f.enabled THEN EnabledOverride ELSE DisabledOverride)
          \* entries := m.entries[normalized]; the two early returns of Delete
          [] f.pc = "check" ->
               IF DOMAIN inner = {} \/ sk \notin DOMAIN inner
               THEN to("unlock") ELSE to("remove")
          \* delete(entries, scope)
          [] f.pc = "remove" ->
               [f |-> [f EXCEPT !.pc = "prune"],
                entries |-> [e EXCEPT ![f.nkey] =
                                [s \in DOMAIN inner \ {sk} |-> inner[s]]]]
          \* if len(entries) == 0 { delete(m.entries, normalized) }; return true
          [] f.pc = "prune" ->
               [f |-> [f EXCEPT !.pc = "unlock", !.deleted = TRUE],
                entries |-> IF DOMAIN inner = {}
                            THEN [k \in DOMAIN e \ {f.nkey} |-> e[k]] ELSE e]
          \* m.entries = map[string]map[scopeKey]Override{}
          [] f.pc = "reset" ->
               [f |-> [f EXCEPT !.pc = "unlock"], entries |-> <<>>]
          \* entries := m.entries[normalized]; if len(entries) == 0 return nil
          [] f.pc = "load" ->
               IF DOMAIN inner = {} \/ f.chain = <<>>
               THEN to("unlock") ELSE [f |-> [f EXCEPT !.pc = "scan", !.at = 1],
                                       entries |-> e]
          \* one turn of the loop over the chain; the inner map is held by
          \* reference, so the lookup reads it as the store holds it now
          [] f.pc = "scan" ->
               LET ref   == f.chain[f.at]
                   found == scopeKeyFromRef(ref) \in DOMAIN inner
               IN  [f |-> [f EXCEPT
                              !.got = IF found
                                      THEN Append(@, [Scope |-> ref,
                                                      Override |-> inner[scopeKeyFromRef(ref)]])
                                      ELSE @,
                              !.at = @ + 1,
                              !.pc = IF f.at = Len(f.chain) THEN "unlock" ELSE "scan"],
                    entries |-> e]
          \* the deferred m.mu.Unlock() / m.mu.RUnlock()
          [] f.pc = "unlock" -> to("done")

\* Goroutine t calls Set, Unset, Delete or Clear on the store.
MemCallWrite(t, op, key, ref, enabled) ==
    /\ threads[t].pc = "done"
    /\ nWrites < MaxWrites
    /\ nWrites' = nWrites + 1
    /\ threads' = [threads EXCEPT ![t] = MemWriteCall(op, key, ref, enabled)]
    /\ UNCHANGED <<gate, uni, linear, entries, cache, last, lastMut, rt, nResolves>>

\* Goroutine t calls GetAll on the store.
MemCallGetAll(t, key, chain) ==
    /\ threads[t].pc = "done"
    /\ nResolves < MaxResolves
    /\ nResolves' = nResolves + 1
    /\ threads' = [threads EXCEPT ![t] = MemGetAllCall(key, chain, linear)]
    /\ UNCHANGED <<gate, uni, linear, entries, cache, last, lastMut, rt, nWrites>>

\* Goroutine t takes the next step of its call on the store. A write takes
\* effect, whole, when it releases the lock; a call that returns becomes the
\* last call.
MemStepThread(t) ==
    LET f == threads[t]
        r == MemStep(f, entries)
        commits == f.pc = "unlock" /\ f.op # "getAll"
        after == IF commits THEN MemWriteOf(f, linear) ELSE linear
    IN  /\ f.pc # "done"
        /\ f.pc = "lock" => muLock(threads, t)
        /\ f.pc = "rlock" => muRLock(threads, t)
        /\ entries' = r.entries
        /\ linear' = after
        /\ threads' = [u \in Threads |->
                          IF u = t THEN r.f
                          ELSE IF threads[u].op = "getAll" /\ threads[u].pc # "done"
                          THEN [threads[u] EXCEPT !.seen = @ \cup {after}]
                          ELSE threads[u]]
        /\ last' = IF r.f.pc = "done" THEN r.f ELSE last
        /\ UNCHANGED <<gate, uni, cache, lastMut, rt, nWrites, nResolves>>

MemNext ==
    \/ \E t \in Threads, key \in uni.keys, ref \in uni.refs, enabled \in BOOLEAN :
          MemCallWrite(t, "set", key, ref, enabled)
    \/ \E t \in Threads, key \in uni.keys, ref \in uni.refs :
          MemCallWrite(t, "unset", key, ref, FALSE)
    \/ \E t \in Threads, key \in uni.keys, ref \in uni.refs :
          MemCallWrite(t, "delete", key, ref, FALSE)
    \/ \E t \in Threads : MemCallWrite(t, "clear", EmptyStr, ZeroScopeRef, FALSE)
    \/ \E t \in Threads, key \in uni.keys, req \in uni.requests :
          MemCallGetAll(t, key, req.chain)
    \/ \E t \in Threads : MemStepThread(t)

\* One key, records at the tenant and at system, and the chain of both.
MemUniverse ==
    [ConcUniverse EXCEPT !.name = "memory", !.refs = {TenantRef, SystemRef}]

InitMem ==
    /\ uni = MemUniverse
    /\ gate \in uni.gates
    /\ entries = NewMemoryStore
    /\ linear = NewMemoryStore
    /\ cache = <<>>
    /\ last = MemIdle
    /\ lastMut = IdleFrame
    /\ rt = NoRoundTrip
    /\ nWrites = 0
    /\ nResolves = 0
    /\ threads = [t \in Threads |-> MemIdle]

MemSpec == InitMem /\ [][MemNext]_vars

(***************************************************************************)
(* Properties                                                              *)
(***************************************************************************)

Decided == {OverrideStateEnabled, OverrideStateDisabled}

\* The last call was a resolve that read the override store without error.
\* Resolve leaves the store alone and every other call replaces last, so
\* entries is the store that call read.
ReadStore ==
    /\ last.op = "resolve"
    /\ last.nStoreGet > 0
    /\ last.storeErr = NoError

\* Positions of the chain of the last call that hold an enabled or disabled
\* record for its key.
DecidedPositions ==
    {i \in 1..Len(last.chain) :
        RecordState(entries, last.nkey, last.chain[i]) \in Decided}

\* C1: when a resolve reads the store and an enabled or disabled record sits
\* on its chain, it returns without error the value of such a record, with
\* source override, and it never consults the defaults.
C1_DecisionWins ==
    (ReadStore /\ DecidedPositions # {}) =>
        /\ last.err = NoError
        /\ last.trace.Source = ResolveSourceOverride
        /\ last.trace.Override.State \in Decided
        /\ last.value = (last.trace.Override.State = OverrideStateEnabled)
        /\ last.trace.Value = last.value
        /\ \E i \in DecidedPositions :
              /\ last.trace.Override.Match = last.chain[i]
              /\ RecordState(entries, last.nkey, last.chain[i])
                    = last.trace.Override.State
        /\ last.nDefaults = 0

\* A decision that contradicts a configured default.
C1_Witness ==
    /\ ReadStore
    /\ DecidedPositions # {}
    /\ DefaultOf(gate.defaults, last.nkey).Set
    /\ DefaultOf(gate.defaults, last.nkey).Value # last.value
    /\ last.trace.Source = ResolveSourceOverride

\* C2: when a resolve reads the store and no enabled or disabled record sits
\* on its chain (no record at all, or only unset ones), and the defaults
\* lookup does not fail, it returns the configured default with source
\* default, or false with source fallback when no default is configured.
C2_NoDecisionFallsToDefault ==
    (ReadStore /\ DecidedPositions = {} /\ last.trace.Default.Error = NoError) =>
        LET def == DefaultOf(gate.defaults, last.nkey)
        IN  /\ last.err = NoError
            /\ last.nDefaults = 1
            /\ def.Set => /\ last.value = def.Value
                          /\ last.trace.Source = ResolveSourceDefault
            /\ ~def.Set => /\ last.value = FALSE
                           /\ last.trace.Source = ResolveSourceFallback

\* Only an unset record on the chain, and a default of true.
C2_Witness ==
    /\ ReadStore
    /\ DecidedPositions = {}
    /\ \E i \in 1..Len(last.chain) :
          RecordState(entries, last.nkey, last.chain[i]) = OverrideStateUnset
    /\ last.value = TRUE
    /\ last.trace.Source = ResolveSourceDefault

\* No record on the chain and no default: false, fallback.
C2_WitnessFallback ==
    /\ ReadStore
    /\ DecidedPositions = {}
    /\ ~DefaultOf(gate.defaults, last.nkey).Set
    /\ last.trace.Source = ResolveSourceFallback

\* Positions of the chain of the last call of a role or permission scope
\* whose record for its key is in the given state.
RolePermPositions(state) ==
    {i \in 1..Len(last.chain) :
        /\ last.chain[i].Kind \in {ScopeRole, ScopePerm}
        /\ RecordState(entries, last.nkey, last.chain[i]) = state}

\* No user scope of the chain holds an enabled or disabled record, so that the
\* strategy reaches the role/permission group.
NoUserDecision ==
    \A i \in DecidedPositions : last.chain[i].Kind # ScopeUser

\* C3: among the role and permission scopes of the chain, one disabled record
\* makes the result false whatever the order and number of enabled records;
\* the group yields true only when none is disabled and at least one is
\* enabled.
C3_RolePermDisabledWins ==
    (ReadStore /\ NoUserDecision) =>
        /\ RolePermPositions(OverrideStateDisabled) # {} =>
              /\ last.value = FALSE
              /\ last.trace.Source = ResolveSourceOverride
              /\ \E i \in RolePermPositions(OverrideStateDisabled) :
                    last.trace.Override.Match = last.chain[i]
        /\ (RolePermPositions(OverrideStateDisabled) = {}
            /\ RolePermPositions(OverrideStateEnabled) # {}) =>
              /\ last.value = TRUE
              /\ last.trace.Source = ResolveSourceOverride
              /\ \E i \in RolePermPositions(OverrideStateEnabled) :
                    last.trace.Override.Match = last.chain[i]
        /\ (last.value /\ last.trace.Source = ResolveSourceOverride
            /\ last.trace.Override.Match.Kind \in {ScopeRole, ScopePerm}) =>
              /\ RolePermPositions(OverrideStateDisabled) = {}
              /\ RolePermPositions(OverrideStateEnabled) # {}

\* An enabled record stands before a disabled one in the chain, and the
\* result is false.
C3_Witness ==
    /\ ReadStore
    /\ \E i \in RolePermPositions(OverrideStateEnabled),
          j \in RolePermPositions(OverrideStateDisabled) : i < j
    /\ last.value = FALSE
    /\ last.trace.Source = ResolveSourceOverride

\* The last call was a successful resolve of the key that the last mutation,
\* a successful Set(key, s, true), wrote, with a chain that contains s.
ResolvedAfterSetTrue ==
    /\ last.op = "resolve"
    /\ last.err = NoError
    /\ lastMut.op = "set"
    /\ lastMut.err = NoError
    /\ lastMut.enabled
    /\ lastMut.nkey = last.nkey
    /\ \E i \in 1..Len(last.chain) : last.chain[i] = lastMut.ref

\* The last call was a successful resolve that closes a round trip: a
\* resolve, Set(key, s, true), Unset(key, s) and now a resolve of the same key
\* with the same chain, which contains s.
ResolvedAfterRoundTrip ==
    /\ rt.phase = "unset"
    /\ last.op = "resolve"
    /\ last.err = NoError
    /\ last.nkey = rt.key
    /\ last.chain = rt.chain
    /\ \E i \in 1..Len(last.chain) : last.chain[i] = rt.ref

\* C4 as stated: after Set(k, s, true) a resolve with a chain containing s
\* returns true, and after Unset(k, s) it returns the value and source it
\* returned before the Set.
C4_RoundTripAsStated ==
    /\ ResolvedAfterSetTrue => last.value = TRUE
    /\ ResolvedAfterRoundTrip =>
          /\ last.value = rt.value
          /\ last.trace.Source = rt.source

\* C4 amended: after Set(k, s, true) a resolve with a chain containing s
\* returns true with source override when s is the only scope of the chain
\* that holds an enabled or disabled record for k; after Unset(k, s) it
\* returns the value and source it returned before the Set when s held no
\* enabled or disabled record for k before the Set.
C4_RoundTrip ==
    /\ (ResolvedAfterSetTrue
        /\ \A i \in DecidedPositions : last.chain[i] = lastMut.ref) =>
          /\ last.value = TRUE
          /\ last.trace.Source = ResolveSourceOverride
    /\ (ResolvedAfterRoundTrip /\ rt.prev \notin Decided) =>
          /\ last.value = rt.value
          /\ last.trace.Source = rt.source

\* A round trip over a default of false is closed: the resolve after the
\* Unset is back at false, default.
C4_Witness ==
    /\ ResolvedAfterRoundTrip
    /\ rt.prev \notin Decided
    /\ rt.source = ResolveSourceDefault
    /\ last.value = FALSE
    /\ last.trace.Source = ResolveSourceDefault
    /\ RecordState(entries, last.nkey, rt.ref) = OverrideStateUnset

\* The resolve between the Set and the Unset returns true, override.
C4_WitnessSet ==
    /\ ResolvedAfterSetTrue
    /\ last.value = TRUE
    /\ last.trace.Source = ResolveSourceOverride
    /\ DefaultOf(gate.defaults, last.nkey) = Off

\* The last call was a successful resolve, of the key the last mutation wrote,
\* whose chain was built from the claims {subject u, tenant t}, and no scope
\* of that chain other than the tenant holds an enabled or disabled record.
TenantScenario ==
    /\ last.op = "resolve"
    /\ last.err = NoError
    /\ ~last.req.given
    /\ last.claimsOut = ClaimsOk(ClaimsUT)
    /\ lastMut.err = NoError
    /\ lastMut.nkey = last.nkey
    /\ \A i \in DecidedPositions : last.chain[i].Kind = ScopeTenant

\* The result of scenario B: false, override, matched scope tenant:t.
TenantOverrideApplies ==
    /\ last.value = FALSE
    /\ last.trace.Source = ResolveSourceOverride
    /\ last.trace.Override.Match.Kind = ScopeTenant
    /\ last.trace.Override.Match.ID = TenantT

\* The result of scenario D: the configured default, source default.
TenantDefaultAgain ==
    DefaultOf(gate.defaults, last.nkey).Set =>
        /\ last.value = DefaultOf(gate.defaults, last.nkey).Value
        /\ last.trace.Source = ResolveSourceDefault

\* C5 as stated: after Set(k, ScopeRef{kind tenant, id t}, false) a resolve
\* over the claims {subject u, tenant t} returns false, override, matched
\* tenant:t; after Unset(k, the same ref) it returns the default again.
C5_TenantScenarioAsStated ==
    /\ (TenantScenario /\ lastMut.op = "set" /\ ~lastMut.enabled
        /\ lastMut.ref = TenantIdRef) => TenantOverrideApplies
    /\ (TenantScenario /\ lastMut.op = "unset" /\ lastMut.ref = TenantIdRef
        /\ DecidedPositions = {}) => TenantDefaultAgain

\* C5 amended: after Set(k, ScopeRef{kind tenant, id t, tenantID t}, false),
\* the ref the chain builder derives from the claims, a resolve over the
\* claims {subject u, tenant t} returns false, override, matched tenant:t,
\* whatever the default; after Unset(k, the same ref) it returns the default
\* again with source default.
C5_TenantScenario ==
    /\ (TenantScenario /\ lastMut.op = "set" /\ ~lastMut.enabled
        /\ lastMut.ref = TenantRef) => TenantOverrideApplies
    /\ (TenantScenario /\ lastMut.op = "unset" /\ lastMut.ref = TenantRef
        /\ DecidedPositions = {}) => TenantDefaultAgain

\* Scenario B over a default of true.
C5_Witness ==
    /\ TenantScenario
    /\ lastMut.op = "set"
    /\ ~lastMut.enabled
    /\ lastMut.ref = TenantRef
    /\ DefaultOf(gate.defaults, last.nkey) = On
    /\ TenantOverrideApplies

\* Scenario D: the disabled tenant override was unset and the default of true
\* is back.
C5_WitnessUnset ==
    /\ TenantScenario
    /\ lastMut.op = "unset"
    /\ lastMut.ref = TenantRef
    /\ lastMut.prev = OverrideStateDisabled
    /\ last.value = TRUE
    /\ last.trace.Source = ResolveSourceDefault

\* The last call was a Set or Unset that succeeded.
MutationSucceeded ==
    /\ last.op \in {"set", "unset"}
    /\ last.err = NoError

\* The value of the last call, a resolve, is the one the store and the
\* defaults give now: that of an enabled or disabled record on its chain if
\* there is one, the default or false otherwise.
FreshResult ==
    IF DecidedPositions # {}
    THEN /\ last.trace.Source = ResolveSourceOverride
         /\ \E i \in DecidedPositions :
               /\ last.trace.Override.Match = last.chain[i]
               /\ last.value =
                    (RecordState(entries, last.nkey, last.chain[i]) = OverrideStateEnabled)
    ELSE /\ last.trace.Source # ResolveSourceOverride
         /\ last.value = (DefaultOf(gate.defaults, last.nkey).Set
                          /\ DefaultOf(gate.defaults, last.nkey).Value)

\* A resolve that follows a successful Set or Unset misses the cache, reads
\* the store and returns the fresh result.
FreshAfterMutation ==
    (MutationSucceeded /\ nResolves' = nResolves + 1) =>
        /\ last'.op = "resolve"
        /\ last'.nCacheGet = 1
        /\ ~last'.trace.CacheHit
        /\ last'.nStoreGet = 1
        /\ last'.err = NoError
        /\ FreshResult'

C8_CacheHitReplays ==
    (last.op = "resolve" /\ last.trace.CacheHit) =>
        /\ last.err = NoError
        /\ last.nStoreGet = 0
        /\ last.nDefaults = 0
        /\ <<last.nkey, last.chain>> \in DOMAIN cache
        /\ last.value = cache[<<last.nkey, last.chain>>].Value
        /\ last.trace.Value = last.value
        /\ last.trace.Source = cache[<<last.nkey, last.chain>>].Trace.Source
        /\ last.trace.Override = cache[<<last.nkey, last.chain>>].Trace.Override
        /\ last.trace.Default = cache[<<last.nkey, last.chain>>].Trace.Default
        /\ ~cache[<<last.nkey, last.chain>>].Trace.CacheHit

\* A cached override decision is replayed.
C8_Witness ==
    /\ last.op = "resolve"
    /\ last.trace.CacheHit
    /\ last.trace.Source = ResolveSourceOverride
    /\ last.value = TRUE
    /\ last.nStoreGet = 0

\* What a call returns beside the counters: value, error, source and the
\* override and default sub-traces.
Returned(f) ==
    [value |-> f.value, err |-> f.err, source |-> f.trace.Source,
     override |-> f.trace.Override, default |-> f.trace.Default]

\* The resolution of the last call's key over the given chain, used as it is,
\* from the given store and an empty cache, the defaults lookup failing as it
\* did in the last call.
ResolutionOver(chain, store) ==
    Run([gate EXCEPT !.appendSystemOnProvidedChain = FALSE],
        ResolveCall(last.trace.Key, WithScopeChain(chain), IdleFrame.claimsOut,
                    IdleFrame.permOut, 0, last.trace.Default.Error # NoError),
        store, <<>>).f

\* The last call was a resolve whose read of the override store failed.
StoreReadFailed ==
    /\ last.op = "resolve"
    /\ last.storeErr = ErrStoreRead

\* C9: when the read of the override store fails, a strict gate returns
\* false and the wrapped store error without consulting the defaults; a
\* permissive gate records the error in trace.Override.Error and returns what
\* it would return if the store held no override: with the defaults lookup
\* succeeding, a nil error and the default value or the false fallback.
C9_StoreReadFailure ==
    StoreReadFailed =>
        /\ last.nStoreGet = 1
        /\ gate.strictStore =>
              /\ last.value = FALSE
              /\ last.err = ErrStoreRead
              /\ last.trace.Override.Error = ErrStoreRead
              /\ last.nDefaults = 0
        /\ ~gate.strictStore =>
              /\ last.trace.Override.Error = ErrStoreRead
              /\ last.nDefaults = 1
              /\ last.value = ResolutionOver(last.chain, NewMemoryStore).value
              /\ last.err = ResolutionOver(last.chain, NewMemoryStore).err
              /\ last.trace.Source = ResolutionOver(last.chain, NewMemoryStore).trace.Source
              /\ last.trace.Default = ResolutionOver(last.chain, NewMemoryStore).trace.Default
              /\ last.trace.Default.Error = NoError =>
                    /\ last.err = NoError
                    /\ last.trace.Source # ResolveSourceOverride
                    /\ last.value = (DefaultOf(gate.defaults, last.nkey).Set
                                     /\ DefaultOf(gate.defaults, last.nkey).Value)

\* A permissive gate returns the default of true although the store holds a
\* disabled record on the chain, which it could not read.
C9_Witness ==
    /\ StoreReadFailed
    /\ ~gate.strictStore
    /\ DecidedPositions # {}
    /\ last.err = NoError
    /\ last.value = TRUE
    /\ last.trace.Source = ResolveSourceDefault
    /\ last.trace.Override.Error = ErrStoreRead

\* A strict gate aborts with the store error.
C9_WitnessStrict ==
    /\ StoreReadFailed
    /\ gate.strictStore
    /\ last.err = ErrStoreRead
    /\ DefaultOf(gate.defaults, last.nkey) = On
    /\ last.value = FALSE

\* C28: a resolve of a permissive gate during which the read of the
\* override store failed leaves the cache as it found it, without an entry
\* for its key and chain; the next resolve of that key and chain is no cache
\* hit and reads the store again, and when that read succeeds it returns the
\* enabled or disabled override stored on the chain, not the default.
C28_OutageNotCached ==
    last.op = "resolve" =>
        /\ (last.storeErr # NoError /\ ~gate.strictStore) =>
              /\ last.nCacheSet = 0
              /\ ~CacheGet(gate.cacheKind, cache, last.nkey, last.chain).found
        /\ last.afterOutage =>
              /\ ~last.trace.CacheHit
              /\ last.nStoreGet >= 1
              /\ (last.storeErr = NoError /\ DecidedPositions # {}) =>
                    /\ last.err = NoError
                    /\ last.trace.Source = ResolveSourceOverride
                    /\ \E i \in DecidedPositions :
                          /\ last.trace.Override.Match = last.chain[i]
                          /\ last.value = (RecordState(entries, last.nkey, last.chain[i])
                                              = OverrideStateEnabled)

\* After a resolve that returned the default of true during an outage, the
\* next resolve of the key and chain read the store and returned the stored
\* disabled override.
C28_Witness ==
    /\ last.op = "resolve" /\ last.afterOutage
    /\ ~gate.strictStore
    /\ DefaultOf(gate.defaults, last.nkey) = On
    /\ last.storeErr = NoError /\ last.nStoreGet = 1
    /\ last.trace.Source = ResolveSourceOverride
    /\ last.trace.Override.Match = TenantRef
    /\ ~last.value

\* The outage itself: the default was returned over a store holding a
\* disabled override, and the cache holds nothing for the key and chain.
C28_WitnessOutage ==
    /\ StoreReadFailed /\ ~gate.strictStore
    /\ last.err = NoError /\ last.value
    /\ last.trace.Source = ResolveSourceDefault
    /\ DecidedPositions # {}
    /\ cache = <<>>

\* The last call was a resolve without an explicit chain, of a valid key,
\* whose claims provider or permission provider failed.
ClaimsFailed ==
    /\ last.op = "resolve"
    /\ last.nkey # EmptyStr
    /\ ~last.req.given
    /\ \/ last.nClaims = 1 /\ last.claimsOut.err
       \/ last.nPerms = 1 /\ last.permOut.err

\* A fail-closed gate returns false and the error and reads nothing.
FailsClosed ==
    /\ last.value = FALSE
    /\ last.err = ErrScopeResolve
    /\ last.nCacheGet = 0
    /\ last.nCacheSet = 0
    /\ last.nStoreGet = 0
    /\ last.nDefaults = 0

\* C10 as stated: on a provider failure a fail-closed gate returns false and
\* the error without reading cache, store or defaults; a fail-open gate
\* returns a nil error and the result of the explicit chain made of the
\* fallback chain with system appended if absent.
C10_ClaimsFailureAsStated ==
    ClaimsFailed =>
        /\ gate.failureMode = FailClosed => FailsClosed
        /\ gate.failureMode = FailOpen =>
              /\ last.err = NoError
              /\ Returned(last) =
                    Returned(ResolutionOver(
                        appendSystemIfMissing(gate.failureFallbackChain), entries))

\* The chain a fail-open gate resolves over after a provider failure.
FailureChain ==
    IF gate.appendSystemOnFailure
    THEN appendSystemIfMissing(gate.failureFallbackChain)
    ELSE gate.failureFallbackChain

\* C10 amended: on a provider failure a fail-closed gate returns false and the
\* error without reading cache, store or defaults; a fail-open gate returns a
\* nil error and the result of resolving over the fallback chain, to which
\* system is appended if absent only while appendSystemOnFailure is enabled
\* (the default).
C10_ClaimsFailure ==
    ClaimsFailed =>
        /\ gate.failureMode = FailClosed => FailsClosed
        /\ gate.failureMode = FailOpen =>
              /\ last.err = NoError
              /\ last.chain = FailureChain
              /\ Returned(last) = Returned(ResolutionOver(FailureChain, entries))

\* A fail-open gate whose claims provider failed applies the disabled
\* override found at the tenant of its fallback chain.
C10_Witness ==
    /\ ClaimsFailed
    /\ gate.failureMode = FailOpen
    /\ last.chain = <<TenantRef, SystemRef>>
    /\ last.err = NoError
    /\ last.value = FALSE
    /\ last.trace.Source = ResolveSourceOverride

\* A fail-closed gate whose permission provider failed returns the error.
C10_WitnessClosed ==
    /\ ClaimsFailed
    /\ gate.failureMode = FailClosed
    /\ last.nPerms = 1
    /\ last.err = ErrScopeResolve

\* The last call was a resolve whose defaults lookup returned an error.
DefaultLookupFailed ==
    /\ last.op = "resolve"
    /\ last.nDefaults = 1
    /\ last.defErr

\* A resolve whose defaults lookup fails leaves the cache as it was.
DefaultFailureLeavesCache ==
    (nResolves' = nResolves + 1 /\ DefaultLookupFailed') => cache' = cache

\* C11: a resolve whose defaults lookup fails returns false and the wrapped
\* lookup error, with the error in trace.Default.Error, whether the store is
\* strict or permissive and whether the gate fails open or closed, and it
\* writes nothing to the cache.
C11_DefaultErrorAborts ==
    /\ [](DefaultLookupFailed =>
            /\ last.value = FALSE
            /\ last.err = ErrDefaultLookup
            /\ last.trace.Default.Error = ErrDefaultLookup
            /\ last.nCacheSet = 0)
    /\ [][DefaultFailureLeavesCache]_vars

\* A strict gate aborts on the failed defaults lookup of a key with a default
\* of true, while the cache holds the entry of an earlier resolve.
C11_Witness ==
    /\ DefaultLookupFailed
    /\ gate.strictStore
    /\ DefaultOf(gate.defaults, last.nkey) = On
    /\ cache # <<>>
    /\ last.err = ErrDefaultLookup

\* A permissive gate whose store read failed aborts on the failed defaults
\* lookup all the same.
C11_WitnessPermissive ==
    /\ DefaultLookupFailed
    /\ ~gate.strictStore
    /\ last.storeErr = ErrStoreRead
    /\ last.err = ErrDefaultLookup

\* A fail-closed gate aborts on the failed defaults lookup.
C11_WitnessClosed ==
    /\ DefaultLookupFailed
    /\ gate.failureMode = FailClosed
    /\ last.err = ErrDefaultLookup

\* The errors Enabled / ResolveWithTrace return.
ResolveErrors == {ErrInvalidKey, ErrScopeResolve, ErrStoreRead, ErrDefaultLookup}

\* C12: a resolve that returns an error (empty key, fail-closed claims
\* failure, store or strategy failure under strict mode, defaults lookup
\* failure) returns the boolean false.
C12_ErrorMeansFalse ==
    (last.op = "resolve" /\ last.err # NoError) =>
        /\ last.err \in ResolveErrors
        /\ last.value = FALSE

\* The strategy of a strict gate fails on a key whose default is true.
C12_Witness ==
    /\ last.op = "resolve"
    /\ gate.strictStore
    /\ gate.strategy = "failing"
    /\ last.err = ErrStoreRead
    /\ DefaultOf(gate.defaults, last.nkey) = On
    /\ last.value = FALSE

\* The store of a strict gate fails while it holds an enabled record on the
\* chain.
C12_WitnessStore ==
    /\ last.op = "resolve"
    /\ gate.strictStore
    /\ gate.strategy = "default"
    /\ last.err = ErrStoreRead
    /\ \E i \in DecidedPositions :
          RecordState(entries, last.nkey, last.chain[i]) = OverrideStateEnabled

\* A fail-closed gate whose claims provider failed.
C12_WitnessClaims ==
    /\ last.op = "resolve"
    /\ last.err = ErrScopeResolve
    /\ last.value = FALSE

\* An empty key.
C12_WitnessKey ==
    /\ last.op = "resolve"
    /\ last.err = ErrInvalidKey
    /\ last.value = FALSE

\* C13: a resolve of a key that is empty after trimming returns false and
\* ErrInvalidKey and calls neither the claims provider, the permission
\* provider, the cache, the override store nor the defaults.
C13_EmptyKeyStopsResolve ==
    (last.op = "resolve" /\ TrimSpace(last.trace.Key) = EmptyStr) =>
        /\ last.value = FALSE
        /\ last.err = ErrInvalidKey
        /\ last.trace.Source = ResolveSourceFallback
        /\ last.chain = <<>>
        /\ last.nClaims = 0
        /\ last.nPerms = 0
        /\ last.nCacheGet = 0
        /\ last.nCacheSet = 0
        /\ last.nStoreGet = 0
        /\ last.nDefaults = 0

\* An empty key is resolved without an explicit chain over a store that holds
\* records and a cache that holds an entry.
C13_Witness ==
    /\ last.op = "resolve"
    /\ last.nkey = EmptyStr
    /\ ~last.req.given
    /\ last.err = ErrInvalidKey
    /\ entries # <<>>
    /\ cache # <<>>

\* The last call was a Set or Unset.
Mutated == last.op \in {"set", "unset"}

\* The last call was a Set or Unset that validation must reject: the gate has
\* no writer, or the key is empty after trimming.
MutationInvalid ==
    /\ Mutated
    /\ ~gate.hasWriter \/ TrimSpace(last.trace.Key) = EmptyStr

\* A Set or Unset that attempted no store write, cleared no cache and emitted
\* no activity event.
MutationDidNothing ==
    /\ last.nStoreWrite = 0
    /\ last.nCacheClear = 0
    /\ last.updates = <<>>

\* A Set or Unset that validation rejects leaves store and cache as they were.
InvalidMutationLeavesState ==
    (nWrites' = nWrites + 1 /\ MutationInvalid') =>
        /\ entries' = entries
        /\ cache' = cache

\* C14: Set and Unset return ErrStoreUnavailable when the gate has no writer,
\* and ErrInvalidKey when it has one and the key is empty after trimming; in
\* both cases they attempt no store write, leave the cache as it was and emit
\* no activity event.
C14_MutationValidates ==
    /\ [](MutationInvalid =>
            /\ ~gate.hasWriter => last.err = ErrStoreUnavailable
            /\ gate.hasWriter => last.err = ErrInvalidKey
            /\ MutationDidNothing)
    /\ [][InvalidMutationLeavesState]_vars

\* A Set with a blank key is rejected while the store holds a record and the
\* cache an entry.
C14_Witness ==
    /\ MutationInvalid
    /\ last.op = "set"
    /\ gate.hasWriter
    /\ last.err = ErrInvalidKey
    /\ entries # <<>>
    /\ cache # <<>>

\* An Unset of a valid key on a gate without a writer is rejected while the
\* cache holds an entry.
C14_WitnessNoWriter ==
    /\ MutationInvalid
    /\ last.op = "unset"
    /\ ~gate.hasWriter
    /\ last.nkey # EmptyStr
    /\ last.err = ErrStoreUnavailable
    /\ cache # <<>>

\* The last call was a Set or Unset whose store write of the primary key
\* failed.
PrimaryWriteFailed ==
    /\ Mutated
    /\ last.nStoreWrite = 1
    /\ last.writeErrAt = 1

\* A Set or Unset whose primary write fails leaves the cache as it was.
FailedWriteLeavesCache ==
    (nWrites' = nWrites + 1 /\ PrimaryWriteFailed') => cache' = cache

\* C15: a Set or Unset whose store write of the primary key fails returns the
\* wrapped store error, does not clear the cache and emits no activity event.
C15_WriteErrorPropagates ==
    /\ [](PrimaryWriteFailed =>
            /\ last.err = ErrStoreWrite
            /\ last.nCacheClear = 0
            /\ last.updates = <<>>)
    /\ [][FailedWriteLeavesCache]_vars

\* The write of a Set fails while the cache holds an entry, which stays.
C15_Witness ==
    /\ PrimaryWriteFailed
    /\ last.op = "set"
    /\ last.err = ErrStoreWrite
    /\ cache # <<>>

\* The write of an Unset fails.
C15_WitnessUnset ==
    /\ PrimaryWriteFailed
    /\ last.op = "unset"
    /\ last.err = ErrStoreWrite
    /\ cache # <<>>

\* The last call was a Set that succeeded.
SetSucceeded ==
    /\ last.op = "set"
    /\ last.err = NoError

\* The record a Set of the value writes.
RecordFor(enabled) == IF enabled THEN OverrideStateEnabled ELSE OverrideStateDisabled

\* The legacy aliases of the key the last call was made for.
AliasesOfLast == {p[1] : p \in {q \in keyAliases : q[2] = last.nkey}}

\* After a successful Set the memory store holds the record of the written
\* value at the normalized scope under the normalized key, which is the
\* canonical key when the call named a legacy alias.
SetWroteCanonical ==
    /\ \A p \in keyAliases : last.trace.Key = p[1] => last.nkey = p[2]
    /\ last.nkey \in SeqRange(last.writeCalls)
    /\ gate.store = StoreMemory =>
          RecordState(entries, last.nkey, last.scopeRef) = RecordFor(last.enabled)

ReadStub ==
    /\ ReadStore
    /\ gate.store = StoreStub

\* The stubStore holds an enabled or disabled record under the key.
StubDecides(key) ==
    /\ key \in DOMAIN entries
    /\ entries[key].State \in Decided

\* The keys of the store reads of the last call: the normalized key first,
\* then legacy aliases of it in ascending order without a gap, each read made
\* only after the reads before it yielded no decision.
ReadsCanonicalThenAliases ==
    LET calls == last.getCalls
    IN  /\ calls # <<>>
        /\ calls[1] = last.nkey
        /\ \A i \in 2..Len(calls) : calls[i] \in AliasesOfLast
        /\ \A i \in 2..(Len(calls) - 1) : StrLess(calls[i], calls[i + 1])
        /\ \A a \in AliasesOfLast \ SeqRange(calls) :
              \A i \in 2..Len(calls) : StrLess(calls[i], a)
        /\ last.nStoreGet = Len(calls)

\* C17: a resolve queries the override store with the normalized key first;
\* only when that yields no decision does it query the store with the legacy
\* aliases of the key, in sorted order, up to the first that yields a
\* decision, which gives the result with source override; a decision under
\* the canonical key wins over any alias record.
C17_AliasFallback ==
    /\ ReadStore => ReadsCanonicalThenAliases
    /\ ReadStub =>
          LET calls == last.getCalls
              final == calls[Len(calls)]
          IN  /\ \A i \in 1..(Len(calls) - 1) : ~StubDecides(calls[i])
              /\ StubDecides(last.nkey) => calls = <<last.nkey>>
              /\ StubDecides(final) =>
                    /\ last.trace.Source = ResolveSourceOverride
                    /\ last.value = (entries[final].State = OverrideStateEnabled)
              /\ ~StubDecides(final) =>
                    /\ AliasesOfLast \subseteq SeqRange(calls)
                    /\ last.trace.Source # ResolveSourceOverride

\* The canonical key holds an unset record and the first alias none; the
\* enabled record of the second alias decides, against a default of false.
C17_Witness ==
    /\ ReadStub
    /\ last.nkey = K1
    /\ last.getCalls = <<K1, KeyB, K2>>
    /\ K1 \in DOMAIN entries
    /\ last.value = TRUE
    /\ last.trace.Source = ResolveSourceOverride

\* The disabled record of the canonical key wins over the enabled records of
\* both aliases, which are not read.
C17_WitnessCanonical ==
    /\ ReadStub
    /\ StubDecides(K2) /\ entries[K2].State = OverrideStateEnabled
    /\ StubDecides(KeyB) /\ entries[KeyB].State = OverrideStateEnabled
    /\ last.getCalls = <<K1>>
    /\ last.value = FALSE
    /\ last.trace.Source = ResolveSourceOverride

\* The store without the records of any key but the given one.
OnlyKey(store, key) == [k \in DOMAIN store \cap {key} |-> store[k]]

\* The last call was a resolve that returned without error and without a
\* cache hit.
ResolvedUncached ==
    /\ last.op = "resolve"
    /\ last.err = NoError
    /\ ~last.trace.CacheHit

\* C18: with the shipped, empty alias table an uncached resolve of key k
\* reads the override store once, with the normalized k, and returns what it
\* would return if the store held no record of any other key; a successful
\* Unset(k, s) makes one store write, for k.
C18_KeysIsolated ==
    keyAliases = {} =>
        /\ ResolvedUncached =>
              /\ last.getCalls = <<last.nkey>>
              /\ last.nStoreGet = 1
              /\ Returned(last)
                    = Returned(ResolutionOver(last.chain, OnlyKey(entries, last.nkey)))
        /\ (last.op = "unset" /\ last.err = NoError) =>
              /\ last.writeCalls = <<last.nkey>>
              /\ last.nStoreWrite = 1

\* A resolve of K1 returns its default of true while the store holds a
\* disabled record of K2 on the chain and no record of K1.
C18_Witness ==
    /\ keyAliases = {}
    /\ ResolvedUncached
    /\ last.nkey = K1
    /\ K1 \notin DOMAIN entries
    /\ \E i \in 1..Len(last.chain) :
          RecordState(entries, K2, last.chain[i]) = OverrideStateDisabled
    /\ last.value = TRUE
    /\ last.trace.Source = ResolveSourceDefault

\* An Unset of K1 leaves the enabled record of K2 at the same scope alone.
C18_WitnessUnset ==
    /\ keyAliases = {}
    /\ last.op = "unset"
    /\ last.err = NoError
    /\ last.nkey = K1
    /\ last.writeCalls = <<K1>>
    /\ RecordState(entries, K2, last.scopeRef) = OverrideStateEnabled

\* The last call was a resolve.
Resolved == last.op = "resolve"

\* C19: when a resolve returns, each registered resolve hook has received
\* one event of the call, the hooks having been called in registration
\* order, whichever way the call ended; the event carries the value, the
\* source and the error the call returns, and its key and chain.
C19_ResolveHookEvents ==
    Resolved =>
        /\ Len(last.events) = gate.hooks
        /\ \A i \in 1..Len(last.events) :
              /\ last.events[i].hook = i
              /\ last.events[i].Value = last.value
              /\ last.events[i].Source = last.trace.Source
              /\ last.events[i].Error = last.err
              /\ last.events[i].NormalizedKey = last.nkey
              /\ last.events[i].Chain = last.chain
              /\ last.events[i].CacheHit = last.trace.CacheHit

\* Two hooks are told of a resolve that ended on a failed defaults lookup.
C19_Witness ==
    /\ Resolved
    /\ gate.hooks = 2
    /\ last.err = ErrDefaultLookup
    /\ Len(last.events) = 2
    /\ last.events[2].Error = ErrDefaultLookup

\* Two hooks are told of a cache hit.
C19_WitnessCacheHit ==
    /\ Resolved
    /\ last.trace.CacheHit
    /\ Len(last.events) = 2
    /\ last.events[1].CacheHit

\* The exit paths of resolve, each with its two events: invalid key, claims
\* failure, strict store error, override decision, default and fallback.
C19_WitnessInvalidKey == Resolved /\ last.err = ErrInvalidKey /\ Len(last.events) = 2

C19_WitnessClaims == Resolved /\ last.err = ErrScopeResolve /\ Len(last.events) = 2

C19_WitnessStore == Resolved /\ last.err = ErrStoreRead /\ Len(last.events) = 2

C19_WitnessOverride ==
    /\ Resolved /\ last.err = NoError /\ ~last.trace.CacheHit
    /\ last.trace.Source = ResolveSourceOverride /\ Len(last.events) = 2

C19_WitnessDefault ==
    /\ Resolved /\ last.err = NoError /\ ~last.trace.CacheHit
    /\ last.trace.Source = ResolveSourceDefault /\ Len(last.events) = 2

C19_WitnessFallback ==
    /\ Resolved /\ last.err = NoError /\ ~last.trace.CacheHit
    /\ last.trace.Source = ResolveSourceFallback /\ Len(last.events) = 2

\* The last call was a Set or Unset whose store write of the primary key
\* succeeded.
PrimaryWriteSucceeded ==
    /\ Mutated
    /\ last.nStoreWrite >= 1
    /\ last.writeErrAt # 1

\* The activity.UpdateEvent the last Set or Unset is to report, from the
\* arguments of the call (of the key, the trimmed form is remembered).
UpdateEventOfLast ==
    [Key |-> last.trace.Key,
     NormalizedKey |-> NormalizeKey(last.trace.Key),
     Scope |-> normalizeScopeRef(gate.rolePermNormalizer, last.ref),
     Actor |-> last.actor,
     Action |-> last.op,
     Value |-> IF last.op = "unset" THEN "nil"
               ELSE IF last.enabled THEN "true" ELSE "false"]

\* C20: a Set or Unset whose store write of the primary key succeeds has
\* delivered, when it returns, exactly one event to each registered activity
\* hook, in registration order: the normalized key, the normalized ScopeRef,
\* the actor, and action "set" with the written boolean or action "unset"
\* with no value.
C20_UpdateHookEvents ==
    PrimaryWriteSucceeded =>
        /\ Len(last.updates) = gate.updateHooks
        /\ \A i \in 1..Len(last.updates) :
              /\ last.updates[i].hook = i
              /\ last.updates[i].event = UpdateEventOfLast

\* An Unset under a legacy name at a role scope: its write of the canonical
\* key succeeds, its write of an alias fails, and both hooks still get the
\* event although the call returns the error.
C20_Witness ==
    /\ PrimaryWriteSucceeded
    /\ last.op = "unset"
    /\ last.err = ErrStoreWrite
    /\ last.trace.Key = K2 /\ last.ref = RoleRef(<<" ", "A">>)
    /\ last.actor = ActorB
    /\ Len(last.updates) = 2
    /\ last.updates[2].event.NormalizedKey = K1
    /\ last.updates[2].event.Scope = RoleRef(<<"a">>)
    /\ last.updates[2].event.Actor = ActorB
    /\ last.updates[2].event.Value = "nil"

\* A Set to false under the canonical key reports the written boolean.
C20_WitnessSet ==
    /\ PrimaryWriteSucceeded
    /\ last.op = "set" /\ ~last.enabled
    /\ last.err = NoError
    /\ last.trace.Key = K1
    /\ Len(last.updates) = 2
    /\ last.updates[1].event.NormalizedKey = K1
    /\ last.updates[1].event.Action = "set"
    /\ last.updates[1].event.Value = "false"

\* The state of the record the memory store e holds under key k and scope
\* key sk.
StateAt(e, k, sk) ==
    IF k \in DOMAIN e /\ sk \in DOMAIN e[k] THEN e[k][sk].State
    ELSE OverrideStateMissing

\* The (key, scope key) pairs the memory store e holds a record for.
RecordsOf(e) == {<<k, sk>> : k \in DOMAIN e, sk \in UNION {DOMAIN e[x] : x \in DOMAIN e}}

\* A step moves the records as the state machine allows: a record changes
\* state only in a Set, to enabled or disabled, in an Unset, to unset, or in
\* a Delete or Clear of the store, to missing.
RecordTransitions ==
    \A r \in RecordsOf(entries) \cup RecordsOf(entries') :
        LET from == StateAt(entries, r[1], r[2])
            to   == StateAt(entries', r[1], r[2])
        IN  from # to =>
              \/ last'.op = "set" /\ to \in Decided
              \/ last'.op = "unset" /\ to = OverrideStateUnset
              \/ last'.op \in {"delete", "clear"} /\ to = OverrideStateMissing

\* A Set or Unset that returns no error leaves the record it names enabled,
\* disabled or unset, as asked, whatever its state was.
MutationWritesState ==
    (nWrites' = nWrites + 1 /\ last'.op \in {"set", "unset"} /\ last'.err = NoError) =>
        StateAt(entries', last'.nkey, scopeKeyFromRef(last'.scopeRef))
            = IF last'.op = "unset" THEN OverrideStateUnset
              ELSE IF last'.enabled THEN OverrideStateEnabled
              ELSE OverrideStateDisabled

\* C21: the record of a key and scope changes state only by Set, into enabled
\* or disabled from any state, and by Unset, into unset from any state; no
\* Set, Unset or resolve returns a record to missing, which only Delete and
\* Clear of the store do.
C21_RecordStateMachine == [][RecordTransitions /\ MutationWritesState]_vars

\* An Unset has turned an enabled record into a tombstone, which the store
\* still holds.
C21_Witness ==
    /\ last.op = "unset" /\ last.err = NoError
    /\ last.prev = OverrideStateEnabled
    /\ StateAt(entries, last.nkey, scopeKeyFromRef(last.scopeRef)) = OverrideStateUnset

\* A Set has turned a tombstone into a disabled record.
C21_WitnessSet ==
    /\ last.op = "set" /\ last.err = NoError /\ ~last.enabled
    /\ last.prev = OverrideStateUnset
    /\ StateAt(entries, last.nkey, scopeKeyFromRef(last.scopeRef))
          = OverrideStateDisabled

\* A Delete on the store has removed a tombstone.
C21_WitnessDelete ==
    /\ last.op = "delete" /\ last.value
    /\ last.prev = OverrideStateUnset
    /\ StateAt(entries, last.nkey, scopeKeyFromRef(last.scopeRef))
          = OverrideStateMissing

\* The unset records of the memory store e.
UnsetRecords(e) ==
    {r \in RecordsOf(e) : StateAt(e, r[1], r[2]) = OverrideStateUnset}

\* The memory store e without the records S.
Without(e, S) ==
    LET inner(k) == [sk \in {x \in DOMAIN e[k] : <<k, x>> \notin S} |-> e[k][sk]]
    IN  [k \in {x \in DOMAIN e : DOMAIN inner(x) # {}} |-> inner(k)]

\* The frame a resolve returns with over the store e and an empty cache.
ResolvedOver(e, key, req, co, po) ==
    Run(gate, ResolveCall(key, req, co, po, 0, FALSE), e, <<>>).f

\* The chain of the given resolve holds an unset record of the store.
UnsetOnChain(f) ==
    \E i \in 1..Len(f.chain) :
        StateAt(entries, f.nkey, scopeKeyFromRef(f.chain[i])) = OverrideStateUnset

\* C22: whatever the store holds, a resolve returns the same value, source
\* and error over the store and over the store with any of its unset records
\* removed, and so did the last resolve.
C22_UnsetIsMissing ==
    \A key \in uni.keys, req \in uni.requests, co \in uni.claims, po \in uni.perms :
        \A S \in SUBSET UnsetRecords(entries) :
            LET same(a, b) ==
                    /\ a.value = b.value
                    /\ a.trace.Source = b.trace.Source
                    /\ a.err = b.err
                    /\ (last.op = "resolve" /\ last.nkey = b.nkey /\ last.chain = b.chain)
                          => (last.value = b.value /\ last.trace.Source = b.trace.Source)
            IN  same(ResolvedOver(entries, key, req, co, po),
                     ResolvedOver(Without(entries, S), key, req, co, po))

\* A resolve passed an unset record at the user scope and took the enabled
\* override of the tenant, as it would have without the unset record.
C22_Witness ==
    /\ last.op = "resolve" /\ last.err = NoError
    /\ gate.scopeOrder = defaultScopeOrder
    /\ StateAt(entries, last.nkey, scopeKeyFromRef(UserFullRef)) = OverrideStateUnset
    /\ StateAt(entries, last.nkey, scopeKeyFromRef(TenantRef)) = OverrideStateEnabled
    /\ last.value /\ last.trace.Source = ResolveSourceOverride
    /\ last.trace.Override.Match = TenantRef

\* A resolve over a store holding unset records only returned the default.
C22_WitnessDefault ==
    /\ last.op = "resolve" /\ last.err = NoError
    /\ UnsetOnChain(last)
    /\ UnsetRecords(entries) = RecordsOf(entries)
    /\ last.trace.Source = ResolveSourceDefault

\* The groups in the order the gate evaluates them.
ChainGroups == groupOrderFor(gate.scopeOrder)

\* The state of the record at the i-th scope of the chain of the last
\* resolve.
StoredAt(i) == StateAt(entries, last.nkey, scopeKeyFromRef(last.chain[i]))

\* The positions of the chain whose scope belongs to group g, those of them
\* that carry a record, and those that carry an enabled or disabled one.
InGroup(g) ==
    {i \in 1..Len(last.chain) : scopeKindInGroup(last.chain[i].Kind, g)}

Stored(g) == {i \in InGroup(g) : StoredAt(i) # OverrideStateMissing}

Decisive(g) ==
    {i \in InGroup(g) : StoredAt(i) \in {OverrideStateEnabled, OverrideStateDisabled}}

\* The first group in the gate's order for which S is not empty, if any.
FirstGroupWith(S(_)) ==
    {ChainGroups[n] : n \in {m \in 1..Len(ChainGroups) :
                                /\ S(ChainGroups[m]) # {}
                                /\ \A l \in 1..(m - 1) : S(ChainGroups[l]) = {}}}

Min(S) == CHOOSE x \in S : \A y \in S : x <= y

\* The records of the store at chain positions outside group g.
RecordsOutside(g) ==
    {<<last.nkey, scopeKeyFromRef(last.chain[i])>> :
        i \in {j \in 1..Len(last.chain) : j \notin InGroup(g) /\ j \in UNION {Stored(h) : h \in SeqRange(ChainGroups)}}}

\* The last resolve decided by the record at the i-th scope of its chain.
DecidedBy(i) ==
    /\ last.trace.Source = ResolveSourceOverride
    /\ last.trace.Override.Match = last.chain[i]
    /\ last.trace.Override.State = StoredAt(i)
    /\ last.value = (StoredAt(i) = OverrideStateEnabled)

\* C25 as stated: the first group, in the gate's order, with a record of
\* any state at a scope of the chain decides, and when it is not the
\* role/permission group its first record in chain order, whatever its
\* state, is the decision.
C25_FirstStoredDecides ==
    (last.op = "resolve" /\ last.err = NoError) =>
        \A g \in FirstGroupWith(Stored) :
            g # groupRolePerm => DecidedBy(Min(Stored(g)))

\* C25: the first group, in the gate's order, with an enabled or disabled
\* record at a scope of the chain decides: when it is not the
\* role/permission group its first enabled or disabled record in chain
\* order is the decision, and the resolve returns what it returns over the
\* store without the records of the other groups; with no such group no
\* override decides.
C25_FirstDecisiveGroup ==
    (last.op = "resolve" /\ last.err = NoError) =>
        /\ FirstGroupWith(Decisive) = {}
              => last.trace.Source # ResolveSourceOverride
        /\ \A g \in FirstGroupWith(Decisive) :
              /\ last.trace.Source = ResolveSourceOverride
              /\ scopeKindInGroup(last.trace.Override.Match.Kind, g)
              /\ g # groupRolePerm => DecidedBy(Min(Decisive(g)))
              /\ \A req \in uni.requests, co \in uni.claims, po \in uni.perms :
                    LET same(b) ==
                            b.chain = last.chain =>
                                /\ b.value = last.value
                                /\ b.trace.Source = last.trace.Source
                                /\ b.trace.Override.Match = last.trace.Override.Match
                    IN  same(ResolvedOver(Without(entries, RecordsOutside(g)),
                                          last.trace.Key, req, co, po))

\* The tenant group decided although the user scope carries a record: the
\* chain names tenant o after tenant t, both carry an enabled or disabled
\* record of different value, and the record of tenant t is the decision.
C25_Witness ==
    /\ last.op = "resolve" /\ last.err = NoError
    /\ gate.scopeOrder = ReverseScopeOrder
    /\ last.chain = <<TenantRef, TenantORef, UserFullRef>>
    /\ StateAt(entries, last.nkey, scopeKeyFromRef(TenantRef)) = OverrideStateDisabled
    /\ StateAt(entries, last.nkey, scopeKeyFromRef(TenantORef)) = OverrideStateEnabled
    /\ last.trace.Override.Match = TenantRef
    /\ ~last.value

\* The first group with a record holds an unset record only: the decision
\* is the record of the next group.
C25_WitnessUnsetGroup ==
    /\ last.op = "resolve" /\ last.err = NoError
    /\ gate.scopeOrder = defaultScopeOrder
    /\ StateAt(entries, last.nkey, scopeKeyFromRef(UserFullRef)) = OverrideStateUnset
    /\ StateAt(entries, last.nkey, scopeKeyFromRef(TenantORef)) = OverrideStateDisabled
    /\ last.trace.Override.Match = TenantORef
    /\ ~last.value

\* The kinds of scope that are evaluated together with kind.
KindsWith(kind) ==
    IF kind \in {ScopeRole, ScopePerm} THEN {ScopeRole, ScopePerm} ELSE {kind}

\* The place of the group of kind in the configured scopeOrder: that of the
\* first of its kinds named there.
GroupRank(kind) ==
    Min({i \in 1..Len(gate.scopeOrder) : gate.scopeOrder[i] \in KindsWith(kind)})

\* The place of the group of kind in the default order.
DefaultRank(kind) ==
    CASE kind = ScopeUser -> 1
      [] kind \in {ScopeRole, ScopePerm} -> 2
      [] kind = ScopeOrg -> 3
      [] kind = ScopeTenant -> 4
      [] kind = ScopeSystem -> 5

\* The positions of the chain of the last resolve that carry an enabled or
\* disabled record.
DecisiveOnChain ==
    {i \in 1..Len(last.chain) :
        StoredAt(i) \in {OverrideStateEnabled, OverrideStateDisabled}}

\* C26: a resolve over a store with enabled or disabled records at scopes of
\* the chain is decided by one of them whose group comes first in the
\* configured scopeOrder among the groups of these records, which in the
\* default order is user before role/perm before org before tenant before
\* system; without such a record no override decides.
C26_GroupPrecedence ==
    (last.op = "resolve" /\ last.err = NoError) =>
        /\ DecisiveOnChain = {} => last.trace.Source # ResolveSourceOverride
        /\ DecisiveOnChain # {} =>
              /\ last.trace.Source = ResolveSourceOverride
              /\ \E i \in DecisiveOnChain :
                    /\ last.trace.Override.Match = last.chain[i]
                    /\ last.value = (StoredAt(i) = OverrideStateEnabled)
              /\ \A i \in DecisiveOnChain :
                    /\ GroupRank(last.trace.Override.Match.Kind)
                          <= GroupRank(last.chain[i].Kind)
                    /\ gate.scopeOrder = defaultScopeOrder =>
                          DefaultRank(last.trace.Override.Match.Kind)
                            <= DefaultRank(last.chain[i].Kind)

\* Under the reverse order the disabled record of the tenant decides over
\* the enabled record of the user.
C26_Witness ==
    /\ last.op = "resolve" /\ last.err = NoError
    /\ gate.scopeOrder = ReverseScopeOrder
    /\ StateAt(entries, last.nkey, scopeKeyFromRef(UserFullRef)) = OverrideStateEnabled
    /\ StateAt(entries, last.nkey, scopeKeyFromRef(TenantRef)) = OverrideStateDisabled
    /\ last.trace.Override.Match = TenantRef
    /\ ~last.value

\* Under the default order the enabled record of the user decides over the
\* disabled record of the tenant.
C26_WitnessDefault ==
    /\ last.op = "resolve" /\ last.err = NoError
    /\ gate.scopeOrder = defaultScopeOrder
    /\ StateAt(entries, last.nkey, scopeKeyFromRef(UserFullRef)) = OverrideStateEnabled
    /\ StateAt(entries, last.nkey, scopeKeyFromRef(TenantRef)) = OverrideStateDisabled
    /\ last.trace.Override.Match = UserFullRef
    /\ last.value

\* Under the default order the record of a role decides over that of the
\* organisation, and that of the organisation over that of the system.
C26_WitnessRoleOrg ==
    /\ last.op = "resolve" /\ last.err = NoError
    /\ gate.scopeOrder = defaultScopeOrder
    /\ StateAt(entries, last.nkey, scopeKeyFromRef(RoleRef(RoleA))) = OverrideStateDisabled
    /\ StateAt(entries, last.nkey, scopeKeyFromRef(OrgRef)) = OverrideStateEnabled
    /\ last.trace.Override.Match = RoleRef(RoleA)

\* The place of kind in the configured scopeOrder.
KindPlace(kind) ==
    Min({i \in 1..Len(gate.scopeOrder) : gate.scopeOrder[i] = kind})

\* The positions of the chain of the last resolve that hold a role or a
\* permission and carry a record of the given state.
RolePermWith(state) ==
    {i \in 1..Len(last.chain) :
        /\ last.chain[i].Kind \in {ScopeRole, ScopePerm}
        /\ StoredAt(i) = state}

\* No enabled or disabled record of another kind is at a scope whose kind is
\* named in scopeOrder before the first of role and perm.
RolePermComesFirst ==
    \A i \in DecisiveOnChain :
        \/ last.chain[i].Kind \in {ScopeRole, ScopePerm}
        \/ KindPlace(last.chain[i].Kind)
              > (IF KindPlace(ScopeRole) < KindPlace(ScopePerm)
                 THEN KindPlace(ScopeRole) ELSE KindPlace(ScopePerm))

\* C27: roles and permissions are evaluated as one group placed where the
\* first of role and perm is named in scopeOrder: their records decide
\* exactly when no enabled or disabled record of a kind named before that
\* place is on the chain, and then a disabled record at any role or
\* permission decides over an enabled one at any other, whichever of role
\* and perm scopeOrder names first.
C27_RolePermOneGroup ==
    (last.op = "resolve" /\ last.err = NoError
        /\ RolePermWith(OverrideStateEnabled) \cup RolePermWith(OverrideStateDisabled) # {}) =>
        IF RolePermComesFirst
        THEN /\ last.trace.Source = ResolveSourceOverride
             /\ last.trace.Override.Match.Kind \in {ScopeRole, ScopePerm}
             /\ last.value = (RolePermWith(OverrideStateDisabled) = {})
             /\ \E i \in RolePermWith(IF last.value THEN OverrideStateEnabled
                                        ELSE OverrideStateDisabled) :
                    last.trace.Override.Match = last.chain[i]
        ELSE last.trace.Override.Match.Kind \notin {ScopeRole, ScopePerm}

\* The disabled record of the permission defeats the enabled record of the
\* role under the default order, which names role first.
C27_Witness ==
    /\ last.op = "resolve" /\ last.err = NoError
    /\ gate.scopeOrder = defaultScopeOrder
    /\ StateAt(entries, last.nkey, scopeKeyFromRef(RoleRef(RoleA))) = OverrideStateEnabled
    /\ StateAt(entries, last.nkey, scopeKeyFromRef(PermRef(PermP))) = OverrideStateDisabled
    /\ last.trace.Override.Match = PermRef(PermP)
    /\ ~last.value

\* The disabled record of the role defeats the enabled record of the
\* permission under an order that names perm first.
C27_WitnessRoleDenies ==
    /\ last.op = "resolve" /\ last.err = NoError
    /\ gate.scopeOrder = SplitScopeOrder
    /\ StateAt(entries, last.nkey, scopeKeyFromRef(RoleRef(RoleA))) = OverrideStateDisabled
    /\ StateAt(entries, last.nkey, scopeKeyFromRef(PermRef(PermP))) = OverrideStateEnabled
    /\ last.trace.Override.Match = RoleRef(RoleA)
    /\ ~last.value

\* scopeOrder names perm, then user, then role: the record of the role
\* decides over that of the user.
C27_WitnessPlacement ==
    /\ last.op = "resolve" /\ last.err = NoError
    /\ gate.scopeOrder = SplitScopeOrder
    /\ StateAt(entries, last.nkey, scopeKeyFromRef(RoleRef(RoleA))) = OverrideStateEnabled
    /\ StateAt(entries, last.nkey, scopeKeyFromRef(UserFullRef)) = OverrideStateDisabled
    /\ last.trace.Override.Match = RoleRef(RoleA)
    /\ last.value

\* The legacy names of the canonical key k in the alias table.
LegacyNamesOf(k) == {p[1] : p \in {q \in keyAliases : q[2] = k}}

\* s lists the strings of S once each in ascending order.
IsSortedListOf(s, S) ==
    /\ Len(s) = Cardinality(S)
    /\ {s[i] : i \in 1..Len(s)} = S
    /\ \A i \in 1..(Len(s) - 1) : StrLess(s[i], s[i + 1])

\* What the store returns for key at the scope of the last call.
StoredUnder(key) == StoreGetAll(gate.store, entries, key, <<last.scopeRef>>)

\* C29: an Unset that returns without error has called the Unset of the
\* store at its scope under the normalized key first and then under each
\* legacy alias of that key in ascending order, and the store returns an
\* unset record at the scope for every one of these keys.
C29_UnsetReplicates ==
    (last.op = "unset" /\ last.err = NoError) =>
        /\ last.writeCalls # <<>>
        /\ Head(last.writeCalls) = last.nkey
        /\ IsSortedListOf(Tail(last.writeCalls), LegacyNamesOf(last.nkey))
        /\ \A i \in 1..Len(last.writeCalls) :
              /\ Len(StoredUnder(last.writeCalls[i])) = 1
              /\ StoredUnder(last.writeCalls[i])[1].Override.State = OverrideStateUnset

\* Unset under the legacy name j of k wrote under k, then b, then j.
C29_Witness ==
    /\ last.op = "unset" /\ last.err = NoError
    /\ last.trace.Key = K2 /\ last.nkey = K1
    /\ last.writeCalls = <<K1, KeyB, K2>>
    /\ last.prev = OverrideStateEnabled
    /\ \A k \in {K1, KeyB, K2} :
          StoredUnder(k)[1].Override.State = OverrideStateUnset

\* The record the memory store e holds for key k at scope key sk.
RecordAt(e, k, sk) ==
    IF k \in DOMAIN e /\ sk \in DOMAIN e[k] THEN e[k][sk] ELSE MissingOverride

\* A Set or Unset leaves every record as it was except those at its scope
\* under its normalized key and the legacy aliases of that key.
PointWrite ==
    (nWrites' = nWrites + 1 /\ last'.op \in {"set", "unset"}) =>
        \A r \in RecordsOf(entries) \cup RecordsOf(entries') :
            (\/ r[2] # scopeKeyFromRef(last'.scopeRef)
             \/ r[1] \notin {last'.nkey} \cup LegacyNamesOf(last'.nkey))
                => RecordAt(entries', r[1], r[2]) = RecordAt(entries, r[1], r[2])

\* C30: a Set or Unset changes no record but the one at its scope under its
\* key, and that scope under the aliases of the key: the records at every
\* other scope of the key and under every other key are after the call what
\* they were before it, and a call that returns no error leaves the record
\* it names in the state asked for.
C30_PointWrites == [][PointWrite /\ MutationWritesState]_vars

\* A Set at the user scope of k has left the record at the tenant scope of k
\* as it was.
C30_Witness ==
    /\ last.op = "set" /\ last.err = NoError /\ ~last.enabled
    /\ last.nkey = K1 /\ last.scopeRef = UserRef
    /\ last.prev = OverrideStateMissing
    /\ RecordAt(entries, K1, scopeKeyFromRef(UserRef)) = DisabledOverride
    /\ RecordAt(entries, K1, scopeKeyFromRef(TenantRef)) = EnabledOverride

\* An Unset under the legacy name j at the tenant scope has left the record
\* of the key p at that scope as it was.
C30_WitnessOtherKey ==
    /\ last.op = "unset" /\ last.err = NoError
    /\ last.trace.Key = K2 /\ last.nkey = K1 /\ last.scopeRef = TenantRef
    /\ RecordAt(entries, K1, scopeKeyFromRef(TenantRef)) = UnsetOverride
    /\ RecordAt(entries, KeyP, scopeKeyFromRef(TenantRef)) = EnabledOverride

\* The identifiers of a list of roles or permissions: trimmed, without the
\* empty ones, and in lower case when foldCase is set.
Identifiers(values, foldCase) ==
    {IF foldCase THEN ToLower(TrimSpace(v)) ELSE TrimSpace(v) : v \in SeqRange(values)}
        \ {EmptyStr}

\* Two claims of the same actor that differ at most in the order, the
\* repetition, the padding and, when foldCase is set, the letter case of
\* their roles and permissions.
SameIdentifiers(c1, c2, foldCase) ==
    /\ c1.SubjectID = c2.SubjectID /\ c1.TenantID = c2.TenantID /\ c1.OrgID = c2.OrgID
    /\ Identifiers(c1.Roles, foldCase) = Identifiers(c2.Roles, foldCase)
    /\ Identifiers(c1.Perms, foldCase) = Identifiers(c2.Perms, foldCase)

\* The chain the gate builds for the outcome co of the claims provider.
ChainOf(co) == resolveChain(gate, NoChainGiven, co, NoPermissions).chain

\* The last call was a resolve that built its chain from the claims.
BuiltChain ==
    /\ last.op = "resolve"
    /\ last.nClaims = 1
    /\ ~last.claimsOut.err

C23_WitnessCase ==
    /\ BuiltChain
    /\ gate.rolePermNormalizer = NormalizerIdentity
    /\ last.claimsOut.claims.Roles = <<<<"A">>>>
    /\ \E i \in 1..Len(last.chain) : last.chain[i] = RoleRef(<<"A">>)

\* The positions of the chain of the last resolve that hold a role or a
\* permission.
RolePermRefs ==
    {i \in 1..Len(last.chain) : last.chain[i].Kind \in {ScopeRole, ScopePerm}}

\* C31: in the chain a gate builds from claims, in sorted and in
\* preserve-order mode, no two refs of the same kind agree in id, tenant and
\* organisation once the ids are trimmed and put in lower case, and no role
\* or permission ref has a blank id.
C31_NoDuplicateRolePerm ==
    BuiltChain =>
        /\ \A i, j \in RolePermRefs :
              (/\ last.chain[i].Kind = last.chain[j].Kind
               /\ ToLower(TrimSpace(last.chain[i].ID)) = ToLower(TrimSpace(last.chain[j].ID))
               /\ last.chain[i].TenantID = last.chain[j].TenantID
               /\ last.chain[i].OrgID = last.chain[j].OrgID)
                  => i = j
        /\ \A i \in RolePermRefs : TrimSpace(last.chain[i].ID) # EmptyStr

\* In preserve-order mode the roles "A ", "a" give one global role ref and
\* one within the tenant, and the permission delivered as "p" and " p" one
\* of each.
C31_Witness ==
    /\ BuiltChain
    /\ gate.preserveRolePermOrder
    /\ last.claimsOut.claims.Roles = <<<<"A", " ">>, <<"a">>>>
    /\ last.claimsOut.claims.Perms = <<PermP, <<" ", "p">>>>
    /\ last.claimsOut.claims.TenantID = TenantT
    /\ Cardinality({i \in RolePermRefs : last.chain[i].Kind = ScopeRole}) = 2
    /\ Cardinality({i \in RolePermRefs : last.chain[i].Kind = ScopePerm}) = 2

\* Blank and empty role names give no role ref.
C31_WitnessBlank ==
    /\ BuiltChain
    /\ gate.scopeOrder = defaultScopeOrder
    /\ last.claimsOut.claims.Roles = <<<<" ">>, EmptyStr>>
    /\ \A i \in RolePermRefs : last.chain[i].Kind = ScopePerm

\* The positions of the chain of the last resolve that hold a system ref.
SystemPositions ==
    {i \in 1..Len(last.chain) : last.chain[i].Kind = ScopeSystem}

\* C32: a resolve whose claims provider returned claims does not fail for
\* its chain, and the chain holds the system ref: where scopeOrder names
\* system, and as the last ref when scopeOrder does not name it.
C32_SystemAlwaysInChain ==
    BuiltChain =>
        /\ last.err = NoError
        /\ SystemPositions # {}
        /\ \A i \in SystemPositions : last.chain[i] = SystemRef
        /\ (\A n \in 1..Len(gate.scopeOrder) : gate.scopeOrder[n] # ScopeSystem)
              => SystemPositions = {Len(last.chain)}
        /\ gate.scopeOrder[1] = ScopeSystem => 1 \in SystemPositions

\* Under an order that does not name system the chain of an actor with a
\* tenant ends in the system ref.
C32_Witness ==
    /\ BuiltChain
    /\ gate.scopeOrder = ShortScopeOrder
    /\ last.claimsOut.claims.TenantID = TenantT
    /\ last.claimsOut.claims.SubjectID = UserU
    /\ Len(last.chain) >= 3
    /\ last.chain[Len(last.chain)] = SystemRef

\* Empty claims give the chain of the system ref alone.
C32_WitnessEmpty ==
    /\ BuiltChain
    /\ last.claimsOut.claims = NoClaims
    /\ last.chain = <<SystemRef>>

\* The claims of the last resolve carry a tenant or an organisation.
ClaimsQualified ==
    \/ last.claimsOut.claims.TenantID # EmptyStr
    \/ last.claimsOut.claims.OrgID # EmptyStr

\* The ref at position i of the chain of the last resolve names neither
\* tenant nor organisation.
IsGlobalAt(i) ==
    last.chain[i].TenantID = EmptyStr /\ last.chain[i].OrgID = EmptyStr

\* scopeOrder names kind.
OrderNames(kind) ==
    \E n \in 1..Len(gate.scopeOrder) : gate.scopeOrder[n] = kind

\* The refs of the given kind in the chain of the last resolve.
RefsOfKind(kind) ==
    {last.chain[i] : i \in {j \in 1..Len(last.chain) : last.chain[j].Kind = kind}}

\* The refs of the given kind are those of the identifiers ids: the global
\* one, and the one qualified by the claims when these carry a tenant or an
\* organisation.
RolePermRefsAre(kind, ids) ==
    RefsOfKind(kind) =
        {ScopeRef(kind, id, EmptyStr, EmptyStr) : id \in ids}
        \cup (IF ClaimsQualified
               THEN {ScopeRef(kind, id, last.claimsOut.claims.TenantID,
                              last.claimsOut.claims.OrgID) : id \in ids}
               ELSE {})

\* C33: the chain built from claims holds, for each role and permission
\* that survives trimming, folding and de-duplication and whose kind
\* scopeOrder names, the global ref and, exactly when the claims carry a
\* tenant or an organisation, right after it the ref with the tenant and
\* organisation of the claims, and no other role or permission ref; it holds
\* the user ref exactly for a non-empty subject, the organisation ref
\* exactly for a non-empty organisation and the tenant ref exactly for a
\* non-empty tenant, when scopeOrder names the kind.
C33_GlobalAndQualifiedRefs ==
    BuiltChain =>
        LET c == last.claimsOut.claims
        IN  /\ RolePermRefsAre(ScopeRole, IF OrderNames(ScopeRole)
                                           THEN Identifiers(c.Roles, TRUE) ELSE {})
            /\ RolePermRefsAre(ScopePerm, IF OrderNames(ScopePerm)
                                           THEN Identifiers(c.Perms, TRUE) ELSE {})
            /\ \A i \in RolePermRefs :
                  IF IsGlobalAt(i)
                  THEN ClaimsQualified =>
                         /\ i < Len(last.chain)
                         /\ last.chain[i + 1]
                               = ScopeRef(last.chain[i].Kind, last.chain[i].ID,
                                          c.TenantID, c.OrgID)
                  ELSE /\ i > 1
                       /\ last.chain[i - 1]
                             = ScopeRef(last.chain[i].Kind, last.chain[i].ID,
                                        EmptyStr, EmptyStr)
            /\ RefsOfKind(ScopeUser)
                  = IF c.SubjectID # EmptyStr /\ OrderNames(ScopeUser)
                    THEN {ScopeRef(ScopeUser, c.SubjectID, c.TenantID, c.OrgID)}
                    ELSE {}
            /\ RefsOfKind(ScopeOrg)
                  = IF c.OrgID # EmptyStr /\ OrderNames(ScopeOrg)
                    THEN {ScopeRef(ScopeOrg, c.OrgID, c.TenantID, c.OrgID)}
                    ELSE {}
            /\ RefsOfKind(ScopeTenant)
                  = IF c.TenantID # EmptyStr /\ OrderNames(ScopeTenant)
                    THEN {ScopeRef(ScopeTenant, c.TenantID, c.TenantID, EmptyStr)}
                    ELSE {}

\* Claims with an organisation and no tenant, no subject and the roles b
\* and a: each role globally and then within the organisation, and no user
\* ref.
C33_Witness ==
    /\ BuiltChain
    /\ gate.scopeOrder = defaultScopeOrder /\ ~gate.preserveRolePermOrder
    /\ last.claimsOut.claims = ActorClaims(EmptyStr, EmptyStr, OrgO, <<RoleB, RoleA>>, <<>>)
    /\ last.chain =
          <<RoleRef(RoleA), ScopeRef(ScopeRole, RoleA, EmptyStr, OrgO),
            RoleRef(RoleB), ScopeRef(ScopeRole, RoleB, EmptyStr, OrgO),
            ScopeRef(ScopeOrg, OrgO, EmptyStr, OrgO), SystemRef>>

\* Claims with neither tenant nor organisation: the global refs alone.
C33_WitnessGlobalOnly ==
    /\ BuiltChain
    /\ gate.scopeOrder = defaultScopeOrder
    /\ last.claimsOut.claims = ActorClaims(UserU, EmptyStr, EmptyStr, <<RoleA>>, <<>>)
    /\ last.chain =
          <<ScopeRef(ScopeUser, UserU, EmptyStr, EmptyStr), RoleRef(RoleA), SystemRef>>

\* The last call was a resolve given an explicit chain.
ChainGiven ==
    /\ last.op = "resolve"
    /\ last.nkey # EmptyStr
    /\ last.req.given

\* The chain a resolve given the chain works on: the chain itself, followed
\* by system when appendSystemOnProvidedChain is on and no ref of the chain is
\* of the system kind.
ChainUsed(chain) ==
    IF /\ gate.appendSystemOnProvidedChain
       /\ \A i \in 1..Len(chain) : chain[i].Kind # ScopeSystem
    THEN Append(chain, SystemRef)
    ELSE chain

\* The explicit chains of the requests of the universe.
GivenChains == {req.chain : req \in {r \in uni.requests : r.given}}

\* C34: a resolve given an explicit chain calls neither the claims provider
\* nor the permission provider and works on the chain as given, system being
\* appended only when appendSystemOnProvidedChain is enabled; whatever the
\* providers would return, failures included, and whether the gate fails open
\* or closed, it returns the same result and makes the same store reads.
C34_ExplicitChainAlone ==
    /\ ChainGiven =>
          /\ last.nClaims = 0
          /\ last.nPerms = 0
          /\ last.err # ErrScopeResolve
          /\ \E chain \in GivenChains : last.chain = ChainUsed(chain)
    /\ \A key \in uni.keys, chain \in GivenChains :
          LET plain == Run(gate, ResolveCall(key, WithScopeChain(chain),
                                             IdleFrame.claimsOut, IdleFrame.permOut,
                                             0, FALSE),
                           entries, cache)
          IN  \A co \in uni.claims, po \in uni.perms, mode \in {FailOpen, FailClosed} :
                  LET r == Run([gate EXCEPT !.failureMode = mode],
                               ResolveCall(key, WithScopeChain(chain), co, po, 0, FALSE),
                               entries, cache)
                  IN  /\ r.f.nClaims = 0
                      /\ r.f.nPerms = 0
                      /\ r.f.chain = ChainUsed(chain)
                      /\ Returned(r.f) = Returned(plain.f)
                      /\ r.f.getCalls = plain.f.getCalls
                      /\ r.f.nStoreGet = plain.f.nStoreGet

\* A fail-closed gate with a permission provider, among whose providers'
\* answers are failures, resolved over the explicit chain of the tenant alone
\* and applied the override found there.
C34_Witness ==
    /\ ChainGiven
    /\ gate.failureMode = FailClosed
    /\ gate.hasPermissionProvider
    /\ ClaimsFail \in uni.claims
    /\ last.chain = <<TenantRef>>
    /\ last.err = NoError
    /\ last.trace.Source = ResolveSourceOverride

\* A gate with appendSystemOnProvidedChain resolved over an explicit chain
\* and found the override stored at system.
C34_WitnessAppended ==
    /\ ChainGiven
    /\ gate.appendSystemOnProvidedChain
    /\ last.chain = <<TenantRef, SystemRef>>
    /\ last.trace.Source = ResolveSourceOverride
    /\ last.trace.Override.Match = SystemRef

\* The positions of the chain whose scope the memory store holds a record for
\* under the key.
StoredPositions(key, chain) ==
    {i \in 1..Len(chain) :
        StateAt(entries, key, scopeKeyFromRef(chain[i])) # OverrideStateMissing}

\* The j-th smallest member of a set of positions.
NthOf(P, j) == CHOOSE p \in P : Cardinality({q \in P : q < p}) = j - 1

\* GetAll(key, chain) of the memory store returns, for the positions of the
\* chain with a record under the key and in their order, the scope at the
\* position and the record stored for it, and nothing else.
GetAllIsStoredOnChain(key, chain) ==
    LET P   == StoredPositions(key, chain)
        got == MemoryGetAll(entries, key, chain)
    IN  /\ Len(got) = Cardinality(P)
        /\ \A j \in 1..Len(got) :
              LET i == NthOf(P, j)
              IN  /\ got[j].Scope = chain[i]
                  /\ got[j].Override = entries[key][scopeKeyFromRef(chain[i])]

\* Chains GetAll is asked for beside the chain of the last resolve: the empty
\* chain, a chain without the user, one that names the tenant twice, and one
\* in the reverse of the usual order.
ProbeChains ==
    {<<>>, <<SystemRef, TenantRef>>, <<TenantRef, SystemRef, TenantRef>>,
     <<SystemRef, TenantRef, UserRef>>}

\* C35: GetAll(key, chain) of the memory store returns exactly one match for
\* each chain position whose scope has a record under the key, in chain
\* order, records in state unset included, and nothing for chain scopes
\* without a record or for stored scopes that are not in the chain.
C35_GetAllByChain ==
    \A key \in uni.keys, chain \in ProbeChains \cup {last.chain} :
        GetAllIsStoredOnChain(key, chain)

\* The store read of the last resolve, a GetAll over a chain of three scopes,
\* returned the unset record at the user and the record at the tenant and
\* nothing for system.
C35_Witness ==
    /\ last.op = "resolve"
    /\ last.nStoreGet = 1
    /\ Len(last.chain) = 3
    /\ StoredPositions(last.nkey, last.chain) = {1, 2}
    /\ StoredAt(1) = OverrideStateUnset
    /\ Len(MemoryGetAll(entries, last.nkey, last.chain)) = 2

\* The store holds a record at the user, and GetAll over a chain that does
\* not name the user returns the tenant's record alone.
C35_WitnessOffChain ==
    /\ last.op = "resolve"
    /\ StateAt(entries, K1, scopeKeyFromRef(UserRef)) # OverrideStateMissing
    /\ Len(MemoryGetAll(entries, K1, <<SystemRef, TenantRef>>)) = 1

\* No goroutine is inside a write of the store.
NoWriteUnderWay == \A t \in Threads : ~HoldsLock(threads[t])

\* The last call was a GetAll on the store that returned.
GetAllReturned == last.op = "getAll" /\ last.pc = "done"

\* C36: under the single read/write lock of the memory store, for any
\* interleaving of Set, Unset, Delete, Clear and GetAll calls, every GetAll
\* returns the matches of the contents the store had at one moment between
\* its call and its return, contents that whole writes applied one after the
\* other produce, never those of a write applied in part; no two goroutines
\* are inside a write, nor one inside a write and one inside a read; and
\* whenever no write is under way the store holds what the writes that
\* returned produce when applied in the order they released the lock.
C36_Linearizable ==
    /\ GetAllReturned =>
          \E e \in last.seen : last.got = MemoryGetAll(e, last.nkey, last.chain)
    /\ \A t, u \in Threads :
          (t # u /\ HoldsLock(threads[t])) =>
              ~HoldsLock(threads[u]) /\ ~HoldsRLock(threads[u])
    /\ NoWriteUnderWay => entries = linear

\* A GetAll that two whole writes overtook between its call and its return
\* returned the matches of one of the three contents the store went through.
C36_Witness ==
    /\ GetAllReturned
    /\ Cardinality(last.seen) = 3
    /\ last.got # <<>>

\* Two goroutines read the store at once.
C36_WitnessReaders ==
    \A t \in Threads : HoldsRLock(threads[t]) /\ threads[t].pc = "scan"

\* The keys the last Require was to query, in order.
GuardKeys == <<last.guard.key>> \o last.guard.overrides

\* What Enabled returns for the i-th of these keys, the claims provider
\* failing in the call the Require had it fail in.
GuardEnabled(i) ==
    Run(gate,
        ResolveCall(GuardKeys[i], NoChainGiven,
                    IF last.guard.errAt = i THEN ClaimsFail
                    ELSE CHOOSE co \in uni.claims : TRUE,
                    NoPermissions, 0, FALSE),
        entries, <<>>).f

\* The first of the keys that is enabled or fails, if there is one.
GuardDecisive ==
    {i \in 1..Len(GuardKeys) :
        /\ GuardEnabled(i).err # NoError \/ GuardEnabled(i).value
        /\ \A j \in 1..(i - 1) :
              GuardEnabled(j).err = NoError /\ ~GuardEnabled(j).value}

C24_WitnessError ==
    /\ last.op = "require" /\ ~last.guard.fgNil
    /\ last.guard.overrides = <<K1, K2>> /\ last.guard.key = K1
    /\ DefaultOf(gate.defaults, K2).Value
    /\ last.guard.errAt = 2 /\ last.guard.errorMapper = WrapMapper
    /\ last.guard.calls = <<K1, K1>>
    /\ last.guard.result = GuardResult("mapped", ErrScopeResolve, EmptyStr)

\* No key is enabled: the DisabledError of the primary key.
C24_WitnessDisabled ==
    /\ last.op = "require" /\ ~last.guard.fgNil
    /\ last.guard.overrides = <<K2>> /\ last.guard.key = K1
    /\ last.guard.calls = <<K1, K2>>
    /\ last.guard.result = GuardResult("disabled", NoError, K1)

\* The query of the key fails and the mapper returns nil for the error:
\* Require returns nil though no key was found enabled.
C24_WitnessNilMapper ==
    /\ last.op = "require" /\ ~last.guard.fgNil
    /\ last.guard.errAt = 1 /\ last.guard.errorMapper = NilMapper
    /\ last.guard.calls = <<last.guard.key>>
    /\ GuardEnabled(1).err = ErrScopeResolve
    /\ last.guard.result = GuardNil

\* A nil gate.
C24_WitnessNilGate ==
    /\ last.op = "require" /\ last.guard.fgNil
    /\ last.guard.calls = <<>>
    /\ last.guard.result = GuardNil

\* The last call was a resolve that returned no error.
ResolveSucceeded ==
    /\ last.op = "resolve"
    /\ last.err = NoError

\* C38: after every successful resolve the trace agrees with the value
\* returned: with source override the override sub-trace carries the state
\* enabled or disabled, the value is true exactly when the state is enabled,
\* and the matched scope is a scope of the chain of the call; with source
\* default the default is set and the value is the default's; with source
\* fallback the value is false; and the source is one of the three.
C38_TraceConsistent ==
    ResolveSucceeded =>
        /\ last.trace.Source \in {ResolveSourceOverride, ResolveSourceDefault,
                                   ResolveSourceFallback}
        /\ last.trace.Value = last.value
        /\ last.trace.Source = ResolveSourceOverride =>
              /\ last.trace.Override.State \in Decided
              /\ last.value = (last.trace.Override.State = OverrideStateEnabled)
              /\ \E i \in 1..Len(last.chain) :
                    last.chain[i] = last.trace.Override.Match
        /\ last.trace.Source = ResolveSourceDefault =>
              /\ last.trace.Default.Set
              /\ last.value = last.trace.Default.Value
        /\ last.trace.Source = ResolveSourceFallback => last.value = FALSE

\* A resolve decided by the disabled override at the tenant of its chain,
\* although the default of the key is true.
C38_Witness ==
    /\ ResolveSucceeded
    /\ last.trace.Source = ResolveSourceOverride
    /\ last.trace.Override.State = OverrideStateDisabled
    /\ last.trace.Override.Match = TenantRef
    /\ last.value = FALSE

\* A resolve that found no override and returned the default that is set.
C38_WitnessDefault ==
    /\ ResolveSucceeded
    /\ last.trace.Source = ResolveSourceDefault
    /\ last.value

\* A resolve that found neither an override nor a default.
C38_WitnessFallback ==
    /\ ResolveSucceeded
    /\ last.nDefaults = 1
    /\ last.trace.Source = ResolveSourceFallback

\* A successful resolve answered from the cache.
C38_WitnessCached ==
    /\ ResolveSucceeded
    /\ last.trace.CacheHit
    /\ last.trace.Source = ResolveSourceOverride

\* The records the store holds under the key of the last call, each as the
\* match a store returns for it.
StoredMatches ==
    {[Scope |-> ref, Override |-> entries[last.nkey][scopeKeyFromRef(ref)]] :
        ref \in {r \in SeedScopes :
                    StateAt(entries, last.nkey, scopeKeyFromRef(r)) # OverrideStateMissing}}

\* The scope order of the gate names the kind or, for role and perm, the
\* other kind of their group.
GroupNamed(kind) ==
    \E i \in 1..Len(gate.scopeOrder) :
        \/ gate.scopeOrder[i] = kind
        \/ {gate.scopeOrder[i], kind} \subseteq {ScopeRole, ScopePerm}

\* The matches that count: those at a scope of the chain of the last call
\* whose kind is of a group the scope order names.
CountingMatches ==
    {m \in StoredMatches :
        /\ \E i \in 1..Len(last.chain) : last.chain[i] = m.Scope
        /\ GroupNamed(m.Scope.Kind)}

\* The sequences that list the members of a set once each, in any order.
OrderingsOf(S) ==
    {f \in [1..Cardinality(S) -> S] : \A i, j \in 1..Cardinality(S) : f[i] = f[j] => i = j}

\* What the default strategy decides for the chain of the last call when the
\* store returns the matches ms.
DecisionFor(ms) == defaultResolveStrategy(last.chain, ms, gate.scopeOrder).decision

\* C39: the decision of the default strategy depends only on the matches at
\* scopes of the chain whose kind is of a group that the scope order names:
\* whichever further records of the store are returned with them, at scopes
\* outside the chain or of kinds whose group the order leaves out, and in
\* whichever order the matches are returned, the decision is the same, and
\* it is the one the last resolve returned.
C39_OnlyCountingMatches ==
    LET agree(d) ==
            /\ \A S \in SUBSET StoredMatches :
                  CountingMatches \subseteq S =>
                      \A ms \in OrderingsOf(S) : DecisionFor(ms) = d
            /\ d.Matched = (last.trace.Source = ResolveSourceOverride)
            /\ d.Matched =>
                  /\ last.value = d.Value
                  /\ last.trace.Override.Match = d.Match
    IN  ReadStore =>
            agree(DecisionFor(CHOOSE ns \in OrderingsOf(CountingMatches) : TRUE))

\* Under an order that names tenant, perm and user, a resolve over a chain
\* with system returned the default although the store holds a disabled
\* record at system and an enabled one at the organisation, which the chain
\* does not name.
C39_Witness ==
    /\ ReadStore
    /\ gate.scopeOrder = ShortScopeOrder
    /\ Len(last.chain) = 5
    /\ StateAt(entries, last.nkey, scopeKeyFromRef(SystemRef)) = OverrideStateDisabled
    /\ StateAt(entries, last.nkey, scopeKeyFromRef(OrgRef)) = OverrideStateEnabled
    /\ CountingMatches = {}
    /\ last.trace.Source = ResolveSourceDefault

\* Two records count and decide the same in either order of return.
C39_WitnessOrder ==
    /\ ReadStore
    /\ Cardinality(CountingMatches) = 2
    /\ last.trace.Source = ResolveSourceOverride
    /\ last.trace.Override.Match = TenantRef
    /\ StateAt(entries, last.nkey, scopeKeyFromRef(UserFullRef)) = OverrideStateUnset

\* An identifier without what the normalizer of the gate ignores: the
\* surrounding whitespace and, for the default normalizer, the letter case.
Folded(id) ==
    IF gate.rolePermNormalizer = NormalizerDefault THEN ToLower(TrimSpace(id))
    ELSE TrimSpace(id)

\* The roles or permissions of the claims of the last resolve.
ClaimedIds(kind) ==
    IF kind = ScopeRole THEN SeqRange(last.claimsOut.claims.Roles)
    ELSE SeqRange(last.claimsOut.claims.Perms)

\* The last Set or Unset succeeded, at a role or permission with a name and
\* without tenant and organisation, and the last call is a later resolve of
\* the same key, for an actor whose claims carry that role or permission up
\* to what the normalizer ignores, under an order that names the kind.
ResolvedForHolder ==
    /\ BuiltChain
    /\ lastMut.op \in {"set", "unset"}
    /\ lastMut.err = NoError
    /\ lastMut.nkey = last.nkey
    /\ lastMut.ref.Kind \in {ScopeRole, ScopePerm}
    /\ TrimSpace(lastMut.ref.TenantID) = EmptyStr
    /\ TrimSpace(lastMut.ref.OrgID) = EmptyStr
    /\ TrimSpace(lastMut.ref.ID) # EmptyStr
    /\ OrderNames(lastMut.ref.Kind)
    /\ \E id \in ClaimedIds(lastMut.ref.Kind) : Folded(id) = Folded(lastMut.ref.ID)

\* The record the last Set or Unset was to leave.
WrittenOverride ==
    IF lastMut.op = "unset" THEN UnsetOverride
    ELSE IF lastMut.enabled THEN EnabledOverride ELSE DisabledOverride

\* C40: Set and Unset normalize the target scope as the chain builder
\* normalizes the roles and permissions of the claims, trimming them and
\* passing them through the role/perm normalizer, which lower-cases by
\* default; so the record written at a role or permission without tenant
\* and organisation is among the matches the store returns for the chain of
\* every actor whose claims carry the role or permission up to surrounding
\* whitespace and, under the default normalizer, letter case, at the ref of
\* the kind with the normalized identifier.
C40_TargetNormalizedAsClaims ==
    /\ ResolvedForHolder =>
          \E i \in 1..Len(last.chain) :
              /\ last.chain[i] =
                    ScopeRef(lastMut.ref.Kind, Folded(lastMut.ref.ID), EmptyStr, EmptyStr)
              /\ \E j \in 1..Len(MemoryGetAll(entries, last.nkey, last.chain)) :
                    MemoryGetAll(entries, last.nkey, last.chain)[j] =
                        [Scope |-> last.chain[i], Override |-> WrittenOverride]
    /\ \A ref \in uni.refs :
          normalizeList(<<ref.ID>>, gate.rolePermNormalizer) =
              IF TrimSpace(ref.ID) = EmptyStr THEN <<>>
              ELSE <<normalizeScopeRef(gate.rolePermNormalizer, ref).ID>>

\* A Set at the role " A" was followed by a resolve for an actor with the
\* role "a", which the disabled override decided.
C40_Witness ==
    /\ ResolvedForHolder
    /\ gate.rolePermNormalizer = NormalizerDefault
    /\ lastMut.op = "set"
    /\ lastMut.ref = RoleRef(<<" ", "A">>)
    /\ last.claimsOut.claims.Roles = <<<<"a">>>>
    /\ last.trace.Source = ResolveSourceOverride
    /\ last.trace.Override.Match = RoleRef(<<"a">>)
    /\ last.value = FALSE

\* An Unset at the permission "B " was followed by a resolve for an actor of
\* a tenant with the permission " b".
C40_WitnessPerm ==
    /\ ResolvedForHolder
    /\ lastMut.op = "unset"
    /\ lastMut.ref.Kind = ScopePerm
    /\ last.claimsOut.claims.TenantID = TenantT

\* Under a normalizer that keeps the case, the role "A" was written and then
\* resolved for an actor with the role "A ".
C40_WitnessIdentity ==
    /\ ResolvedForHolder
    /\ gate.rolePermNormalizer = NormalizerIdentity
    /\ last.trace.Override.Match = RoleRef(<<"A">>)

\* Goroutine t is in a Set or Unset whose writes succeeded and which is about
\* to call its activity hooks.
AboutToNotify(t) ==
    /\ threads[t].op \in {"set", "unset"}
    /\ threads[t].pc = "notify"
    /\ threads[t].err = NoError

\* By the time the hooks are called the store write and the cache clear of
\* the call have been made, in this order, and no hook has been called.
WriteClearNotify ==
    \A t \in Threads :
        AboutToNotify(t) =>
            /\ threads[t].nStoreWrite >= 1
            /\ threads[t].nCacheClear = 1
            /\ threads[t].updates = <<>>

\* A resolve of the written key made from an activity hook of goroutine t
\* returns the value and the source that the store and the defaults give
\* now, not those of a cache entry.
HookObservesStore(t) ==
    \A req \in uni.requests, co \in uni.claims, po \in uni.perms :
        LET call == ResolveCall(threads[t].nkey, req, co, po, 0, FALSE)
            seen == Run(gate, call, entries, cache).f
            now  == Run(gate, call, entries, <<>>).f
        IN  /\ seen.value = now.value
            /\ seen.trace.Source = now.trace.Source

\* C37: within a successful Set or Unset the store write comes first, then
\* the clear of the whole cache, then the calls of the activity hooks, so
\* that a hook that resolves the key observes the value the store gives and
\* never a cache entry from before the mutation.
C37_HookObservesWrite ==
    /\ WriteClearNotify
    /\ \A t \in Threads : AboutToNotify(t) => HookObservesStore(t)

\* Every call has returned.
Quiescent == \A t \in Threads : threads[t].pc = "done"

\* The value an uncached resolve of the key over the chain returns from the
\* store and the defaults as they are now.
UncachedValue(key, chain) ==
    Run([gate EXCEPT !.appendSystemOnProvidedChain = FALSE],
        ResolveCall(key, WithScopeChain(chain), IdleFrame.claimsOut,
                    IdleFrame.permOut, 0, FALSE),
        entries, <<>>).f.value

\* C7: in every interleaving of resolves with Sets and Unsets, once all calls
\* have returned no cache entry holds a value other than the one an uncached
\* resolve of its key and chain returns now.
C7_NoStaleEntryAtQuiescence ==
    Quiescent =>
        \A p \in DOMAIN cache : cache[p].Value = UncachedValue(p[1], p[2])

====
